---- MODULE Spec2Model ----
(***************************************************************************)
(* Model of the numeric helpers of                                         *)
(* 04_HowTos/FileService/How_to_use_the_File_Services.ipynb.               *)
(*                                                                         *)
(* sdss_objid(data) packs the columns rerun, run, camcol, field, id of a   *)
(* record array into CAS-style 64-bit object identifiers.  The function is *)
(* modelled statement by statement: the conversions of the columns to      *)
(* numpy.uint64, the six range checks in their order, and the shift/or     *)
(* expression.                                                             *)
(*                                                                         *)
(* A numpy.uint64 value is modelled as the set of the positions of its one *)
(* bits (a subset of 0..63), so that shifts, ors and comparisons keep      *)
(* their 64-bit width although the integers of the checker are narrower.   *)
(***************************************************************************)
EXTENDS Integers, Sequences, FiniteSets

(***************************************************************************)
(* Bounds of the model.                                                    *)
(***************************************************************************)
MaxRows == 2

(***************************************************************************)
(* numpy.uint64 arithmetic.                                                *)
(***************************************************************************)
Bits64 == 0..63

\* mutant: the magnitude of v instead of its bit pattern
ToUint64_abs(v) ==
    {k \in Bits64 : k <= 30 /\ ((IF v < 0 THEN 0 - v ELSE v) \div 2^k) % 2 = 1}

\* ndarray.astype(numpy.uint64) / numpy.array(..., dtype=numpy.uint64) of a
\* signed integer v: the two's complement bit pattern of v, 64 bits wide.
ToUint64(v) ==
    {k \in Bits64 : IF k <= 30 THEN (v \div 2^k) % 2 = 1 ELSE v < 0}

\* mutant: the shift of a 32-bit integer, as without the explicit widening
Shl_32bit(x, k) == {b + k : b \in x} \cap (0..31)

\* x << k on numpy.uint64: bits shifted beyond bit 63 are lost.
Shl(x, k) == {b + k : b \in x} \cap Bits64

\* x | y on numpy.uint64.
BitOr(x, y) == x \cup y

\* x < y on numpy.uint64: the highest bit in which they differ is set in y.
ULess(x, y) ==
    \E k \in y \ x : \A j \in (k + 1)..63 : (j \in x) <=> (j \in y)

\* x >= y and x > y on numpy.uint64.
UGeq(x, y) == ~ULess(x, y)

UGreater(x, y) == ULess(y, x)

(***************************************************************************)
(* int() of the elements of data['rerun'].tolist().  The rerun column of   *)
(* the catalogue is a string column; a string is modelled as the sequence  *)
(* of its characters, an optional minus sign followed by decimal digits.   *)
(***************************************************************************)
DigitVal(c) ==
    CASE c = "0" -> 0 [] c = "1" -> 1 [] c = "2" -> 2 [] c = "3" -> 3
      [] c = "4" -> 4 [] c = "5" -> 5 [] c = "6" -> 6 [] c = "7" -> 7
      [] c = "8" -> 8 [] c = "9" -> 9

RECURSIVE ParseDigits(_)
ParseDigits(s) ==
    IF s = <<>> THEN 0
    ELSE 10 * ParseDigits(SubSeq(s, 1, Len(s) - 1)) + DigitVal(s[Len(s)])

PyInt(s) == IF Head(s) = "-" THEN 0 - ParseDigits(Tail(s)) ELSE ParseDigits(s)

(***************************************************************************)
(* Inputs.  A row of the record array holds rerun (string), run, camcol,   *)
(* field and id (signed integer columns).                                  *)
(***************************************************************************)
RerunVals == {<<"0">>, <<"3", "0", "1">>, <<"2", "0", "4", "7">>,
              <<"2", "0", "4", "8">>, <<"-", "1">>}

RunVals == {0, 6122, 65535, 65536, -1}

CamcolVals == {1, 6, 0, 7, -1}

FieldVals == {0, 13, 4095, 4096, -1}

IdVals == {0, 1, 65535, 65536, -1}

Row(rr, r, c, f, i) == [rerun |-> rr, run |-> r, camcol |-> c, field |-> f, id |-> i]

KnownRow == Row(<<"3", "0", "1">>, 6122, 1, 13, 1)

MinRow == Row(<<"0">>, 0, 1, 0, 0)

MaxRow == Row(<<"2", "0", "4", "7">>, 65535, 6, 4095, 65535)

OverRow == Row(<<"2", "0", "4", "8">>, 65536, 7, 4096, 65536)

NegRow == Row(<<"-", "1">>, -1, -1, -1, -1)

\* every combination of the values above: the rows of one-row batches
AllRows ==
    {Row(rr, r, c, f, i) : rr \in RerunVals, r \in RunVals, c \in CamcolVals,
                           f \in FieldVals, i \in IdVals}

\* the rows of longer batches: the known example with one field replaced,
\* and the rows with every field at its minimum, at its maximum, just above
\* its maximum, and negative
BatchRows ==
    {[KnownRow EXCEPT !.rerun = v] : v \in RerunVals}
    \cup {[KnownRow EXCEPT !.run = v] : v \in RunVals}
    \cup {[KnownRow EXCEPT !.camcol = v] : v \in CamcolVals}
    \cup {[KnownRow EXCEPT !.field = v] : v \in FieldVals}
    \cup {[KnownRow EXCEPT !.id = v] : v \in IdVals}
    \cup {MinRow, MaxRow, OverRow, NegRow}

Batches ==
    {<<r>> : r \in AllRows} \cup UNION {[1..n -> BatchRows] : n \in 0..MaxRows}

(***************************************************************************)
(* State of one call of one of the functions, sdss_objid(data) first.      *)
(*   data        the argument                                              *)
(*   pc          the statement about to run, or "returned" / "raised"      *)
(*   skyversion, rerun, run, camcol, firstfield, field, objnum             *)
(*               the local uint64 arrays (<<>> while unbound)              *)
(*   objid       <<>> while the local objid is unbound, <<a>> once it      *)
(*               holds the array a                                         *)
(*   ret         <<>> until the call returns, then <<a>> for the array a   *)
(*               handed to the caller                                      *)
(*   err         the message of the exception raised, "" if none           *)
(*   args        the function called and its arguments other than data     *)
(*   frame       the locals of a call of asinh_mag or auxilliary_colors    *)
(*               (<<>> in a call of sdss_objid, whose locals are above)    *)
(***************************************************************************)
VARIABLES data, pc, skyversion, rerun, run, camcol, firstfield, field,
          objnum, objid, ret, err, args, frame

vars == <<data, pc, skyversion, rerun, run, camcol, firstfield, field,
          objnum, objid, ret, err, args, frame>>

locals == <<skyversion, rerun, run, camcol, firstfield, field, objnum>>

N == Len(data)

\* a column of the record array, data['name']
Column(name) == [k \in 1..N |-> data[k][name]]

\* elementwise application over an array
MapArr(Op(_), a) == [k \in 1..Len(a) |-> Op(a[k])]

\* mutant: only the first element of the mask is looked at
AnyTrue_first(mask) == Len(mask) > 0 /\ mask[1]

\* mutant: an empty mask counted as true
AnyTrue_empty(mask) == Len(mask) = 0 \/ \E k \in 1..Len(mask) : mask[k]

\* (mask).any()
AnyTrue(mask) == \E k \in 1..Len(mask) : mask[k]

Init ==
    /\ data \in Batches
    /\ pc = "convert"
    /\ skyversion = <<>> /\ rerun = <<>> /\ run = <<>> /\ camcol = <<>>
    /\ firstfield = <<>> /\ field = <<>> /\ objnum = <<>>
    /\ objid = <<>> /\ ret = <<>>
    /\ err = ""
    /\ args = [fn |-> "sdss_objid"]
    /\ frame = <<>>

(***************************************************************************)
(* Lines 463-469: the local arrays.  numpy.zeros(data.shape) + 2 is an     *)
(* array of twos, int() parses each rerun string, and the conversions to   *)
(* numpy.uint64 wrap negative values around (the notebook runs on the      *)
(* Python 2 era numpy, where numpy.array(-1, dtype=uint64) wraps as        *)
(* astype does).                                                           *)
(***************************************************************************)
SkyVersionValue == 2

Convert ==
    /\ pc = "convert"
    /\ skyversion' = [k \in 1..N |-> ToUint64(0 + SkyVersionValue)]
    /\ rerun' = MapArr(ToUint64, MapArr(PyInt, Column("rerun")))
    /\ run' = MapArr(ToUint64, Column("run"))
    /\ camcol' = MapArr(ToUint64, Column("camcol"))
    /\ firstfield' = [k \in 1..N |-> ToUint64(0)]
    /\ field' = MapArr(ToUint64, Column("field"))
    /\ objnum' = MapArr(ToUint64, Column("id"))
    /\ pc' = "check_skyversion"
    /\ UNCHANGED <<args, frame, data, objid, ret, err>>

(***************************************************************************)
(* Lines 473-484: the range checks.  Each mask is computed on the uint64   *)
(* arrays, so "x < 0" is never true.                                       *)
(***************************************************************************)
SkyversionOutOfBounds(x) == ULess(x, ToUint64(0)) \/ UGeq(x, ToUint64(16))

\* mutant: the bound of rerun one bit too wide
RerunOutOfBounds_2pow12(x) == ULess(x, ToUint64(0)) \/ UGeq(x, ToUint64(2^12))

RerunOutOfBounds(x) == ULess(x, ToUint64(0)) \/ UGeq(x, ToUint64(2^11))

\* mutant: > in place of >=
RunOutOfBounds_gt(x) == ULess(x, ToUint64(0)) \/ UGreater(x, ToUint64(2^16))

RunOutOfBounds(x) == ULess(x, ToUint64(0)) \/ UGeq(x, ToUint64(2^16))

CamcolOutOfBounds(x) == ULess(x, ToUint64(1)) \/ UGreater(x, ToUint64(6))

FieldOutOfBounds(x) == ULess(x, ToUint64(0)) \/ UGeq(x, ToUint64(2^12))

ObjnumOutOfBounds(x) == ULess(x, ToUint64(0)) \/ UGeq(x, ToUint64(2^16))

\* raise ValueError(msg)
Raise(msg) ==
    /\ pc' = "raised"
    /\ err' = msg
    /\ UNCHANGED <<args, frame, data, locals, objid, ret>>

\* the check passed: fall through to the next statement
Goto(next) ==
    /\ pc' = next
    /\ UNCHANGED <<args, frame, data, locals, objid, ret, err>>

CheckSkyversion ==
    /\ pc = "check_skyversion"
    /\ IF AnyTrue(MapArr(SkyversionOutOfBounds, skyversion))
       THEN Raise("skyversion values are out-of-bounds!")
       ELSE Goto("check_rerun")

\* mutant: the id column looked at before the rerun column
CheckRerun_idfirst ==
    /\ pc = "check_rerun"
    /\ IF AnyTrue(MapArr(ObjnumOutOfBounds, objnum))
       THEN Raise("id values are out-of-bounds!")
       ELSE IF AnyTrue(MapArr(RerunOutOfBounds, rerun))
       THEN Raise("rerun values are out-of-bounds!")
       ELSE Goto("check_run")

CheckRerun ==
    /\ pc = "check_rerun"
    /\ IF AnyTrue(MapArr(RerunOutOfBounds, rerun))
       THEN Raise("rerun values are out-of-bounds!")
       ELSE Goto("check_run")

\* mutant: the message of the preceding check, copied
CheckRun_wrongmsg ==
    /\ pc = "check_run"
    /\ IF AnyTrue(MapArr(RunOutOfBounds, run))
       THEN Raise("rerun values are out-of-bounds!")
       ELSE Goto("check_camcol")

CheckRun ==
    /\ pc = "check_run"
    /\ IF AnyTrue(MapArr(RunOutOfBounds, run))
       THEN Raise("run values are out-of-bounds!")
       ELSE Goto("check_camcol")

CheckCamcol ==
    /\ pc = "check_camcol"
    /\ IF AnyTrue(MapArr(CamcolOutOfBounds, camcol))
       THEN Raise("camcol values are out-of-bounds!")
       ELSE Goto("check_field")

CheckField ==
    /\ pc = "check_field"
    /\ IF AnyTrue(MapArr(FieldOutOfBounds, field))
       THEN Raise("field values are out-of-bounds!")
       ELSE Goto("check_id")

\* mutant: the rows before the first bad id are encoded before raising
CheckObjnum_partial ==
    /\ pc = "check_id"
    /\ IF AnyTrue(MapArr(ObjnumOutOfBounds, objnum))
       THEN /\ pc' = "raised"
            /\ err' = "id values are out-of-bounds!"
            /\ objid' = << [k \in {j \in 1..N : \A i \in 1..j :
                                      ~ObjnumOutOfBounds(objnum[i])} |->
                              BitOr(Shl(field[k], 16), objnum[k])] >>
            /\ UNCHANGED <<args, frame, data, locals, ret>>
       ELSE Goto("compute")

CheckObjnum ==
    /\ pc = "check_id"
    /\ IF AnyTrue(MapArr(ObjnumOutOfBounds, objnum))
       THEN Raise("id values are out-of-bounds!")
       ELSE Goto("compute")

(***************************************************************************)
(* Lines 488-495: the identifiers, elementwise, and the return.            *)
(***************************************************************************)
\* mutant: the places of run and field exchanged
ObjidOf_runfield(sv, rr, r, c, ff, f, o) ==
    BitOr(Shl(sv, 59), BitOr(Shl(rr, 48), BitOr(Shl(f, 32),
      BitOr(Shl(c, 29), BitOr(Shl(ff, 28), BitOr(Shl(r, 16), o))))))

\* mutant: camcol shifted by 28
ObjidOf_camcol28(sv, rr, r, c, ff, f, o) ==
    BitOr(Shl(sv, 59), BitOr(Shl(rr, 48), BitOr(Shl(r, 32),
      BitOr(Shl(c, 28), BitOr(Shl(ff, 28), BitOr(Shl(f, 16), o))))))

\* mutant: field shifted by 15
ObjidOf_field15(sv, rr, r, c, ff, f, o) ==
    BitOr(Shl(sv, 59), BitOr(Shl(rr, 48), BitOr(Shl(r, 32),
      BitOr(Shl(c, 29), BitOr(Shl(ff, 28), BitOr(Shl(f, 15), o))))))

\* mutant: the sky version shifted by 60
ObjidOf_sky60(sv, rr, r, c, ff, f, o) ==
    BitOr(Shl(sv, 60), BitOr(Shl(rr, 48), BitOr(Shl(r, 32),
      BitOr(Shl(c, 29), BitOr(Shl(ff, 28), BitOr(Shl(f, 16), o))))))

ObjidOf(sv, rr, r, c, ff, f, o) ==
    BitOr(Shl(sv, 59),
      BitOr(Shl(rr, 48),
        BitOr(Shl(r, 32),
          BitOr(Shl(c, 29),
            BitOr(Shl(ff, 28),
              BitOr(Shl(f, 16), o))))))

\* mutant: the identifiers in reverse row order
Compute_reversed ==
    /\ pc = "compute"
    /\ objid' = << [k \in 1..N |->
                      ObjidOf(skyversion[N + 1 - k], rerun[N + 1 - k],
                              run[N + 1 - k], camcol[N + 1 - k],
                              firstfield[N + 1 - k], field[N + 1 - k],
                              objnum[N + 1 - k])] >>
    /\ pc' = "return"
    /\ UNCHANGED <<args, frame, data, locals, ret, err>>

Compute ==
    /\ pc = "compute"
    /\ objid' = << [k \in 1..N |->
                      ObjidOf(skyversion[k], rerun[k], run[k], camcol[k],
                              firstfield[k], field[k], objnum[k])] >>
    /\ pc' = "return"
    /\ UNCHANGED <<args, frame, data, locals, ret, err>>

Return ==
    /\ pc = "return"
    /\ ret' = objid
    /\ pc' = "returned"
    /\ UNCHANGED <<args, frame, data, locals, objid, err>>

Next ==
    \/ Convert
    \/ CheckSkyversion
    \/ CheckRerun
    \/ CheckRun
    \/ CheckCamcol
    \/ CheckField
    \/ CheckObjnum
    \/ Compute
    \/ Return

Spec == Init /\ [][Next]_vars

TypeOK ==
    /\ pc \in {"convert", "check_skyversion", "check_rerun", "check_run",
               "check_camcol", "check_field", "check_id", "compute",
               "return", "returned", "raised"}
    /\ Len(objid) <= 1 /\ Len(ret) <= 1

(***************************************************************************)
(* Vocabulary of the properties.  Identifiers are compared as numbers      *)
(* written in base 2^16 (five limbs, least significant first), with        *)
(* carrying addition, so that sums of scaled fields are computed           *)
(* arithmetically and independently of the shifts and ors of the code.     *)
(***************************************************************************)
Terminated == pc \in {"returned", "raised"}

\* the number held by the n bits lo .. lo+n-1 of the uint64 x (n <= 16)
RECURSIVE BitsVal(_, _, _)
BitsVal(x, lo, n) ==
    IF n = 0 THEN 0
    ELSE (IF lo + n - 1 \in x THEN 2^(n - 1) ELSE 0) + BitsVal(x, lo, n - 1)

Limbs(x) ==
    <<BitsVal(x, 0, 16), BitsVal(x, 16, 16), BitsVal(x, 32, 16),
      BitsVal(x, 48, 16), 0>>

BigNat(n) == <<n % 65536, n \div 65536, 0, 0, 0>>

RECURSIVE BigAddFrom(_, _, _, _)
BigAddFrom(a, b, j, carry) ==
    IF j > 5 THEN <<>>
    ELSE LET s == a[j] + b[j] + carry
         IN  <<s % 65536>> \o BigAddFrom(a, b, j + 1, s \div 65536)

BigAdd(a, b) == BigAddFrom(a, b, 1, 0)

\* a * m for a small factor m (at most 2^15)
RECURSIVE BigMulFrom(_, _, _, _)
BigMulFrom(a, m, j, carry) ==
    IF j > 5 THEN <<>>
    ELSE LET s == a[j] * m + carry
         IN  <<s % 65536>> \o BigMulFrom(a, m, j + 1, s \div 65536)

BigMulSmall(a, m) == BigMulFrom(a, m, 1, 0)

\* a * 2^k: times 2^(k mod 16), then moved up by k div 16 limbs
BigTimesPow2(a, k) ==
    LET scaled == BigMulSmall(a, 2^(k % 16))
    IN  [j \in 1..5 |-> IF j - (k \div 16) >= 1 THEN scaled[j - (k \div 16)] ELSE 0]

\* the number written with the digits ds in the given base (at most 2^15)
RECURSIVE BigFromDigits(_, _)
BigFromDigits(ds, base) ==
    IF ds = <<>> THEN BigNat(0)
    ELSE BigAdd(BigMulSmall(BigFromDigits(SubSeq(ds, 1, Len(ds) - 1), base), base),
                BigNat(ds[Len(ds)]))

\* the documented ranges of the five fields
RerunInRange(row) == PyInt(row.rerun) >= 0 /\ PyInt(row.rerun) < 2^11

RunInRange(row) == row.run >= 0 /\ row.run < 2^16

CamcolInRange(row) == row.camcol >= 1 /\ row.camcol <= 6

FieldInRange(row) == row.field >= 0 /\ row.field < 2^12

IdInRange(row) == row.id >= 0 /\ row.id < 2^16

RowValid(row) ==
    /\ RerunInRange(row) /\ RunInRange(row) /\ CamcolInRange(row)
    /\ FieldInRange(row) /\ IdInRange(row)

\* 2*2^59 + rerun*2^48 + run*2^32 + camcol*2^29 + field*2^16 + id
LayoutSum(row) ==
    BigAdd(BigTimesPow2(BigNat(2), 59),
      BigAdd(BigTimesPow2(BigNat(PyInt(row.rerun)), 48),
        BigAdd(BigTimesPow2(BigNat(row.run), 32),
          BigAdd(BigTimesPow2(BigNat(row.camcol), 29),
            BigAdd(BigTimesPow2(BigNat(row.field), 16),
                   BigNat(row.id))))))

\* the identifiers handed to the caller
Ids == ret[1]

(***************************************************************************)
(* C1: for every row whose five fields are in range, the identifier        *)
(* returned for it is exactly 2*2^59 + rerun*2^48 + run*2^32 +             *)
(* camcol*2^29 + field*2^16 + id.                                          *)
(***************************************************************************)
C1_LayoutFormula ==
    pc = "returned" =>
        \A k \in DOMAIN Ids :
            RowValid(data[k]) => Limbs(Ids[k]) = LayoutSum(data[k])

C1_Witness ==
    /\ pc = "returned" /\ N = 2
    /\ data[1] = KnownRow /\ data[2] = MaxRow
    /\ Limbs(Ids[2]) = LayoutSum(MaxRow)

(***************************************************************************)
(* C2: round trip.  Bits 48-58, 32-47, 29-31, 16-27 and 0-15 of a returned *)
(* identifier are the rerun, run, camcol, field and id of its row, and two *)
(* rows with distinct field values never get the same identifier.          *)
(***************************************************************************)
Decode(x) ==
    <<BitsVal(x, 48, 11), BitsVal(x, 32, 16), BitsVal(x, 29, 3),
      BitsVal(x, 16, 12), BitsVal(x, 0, 16)>>

Tuple(row) == <<PyInt(row.rerun), row.run, row.camcol, row.field, row.id>>

C2_RoundTrip ==
    pc = "returned" =>
        /\ \A k \in 1..N : Decode(Ids[k]) = Tuple(data[k])
        /\ \A j, k \in 1..N :
               Tuple(data[j]) # Tuple(data[k]) => Ids[j] # Ids[k]

C2_Witness ==
    /\ pc = "returned" /\ N = 2
    /\ Tuple(data[1]) # Tuple(data[2])
    /\ Decode(Ids[1]) = <<301, 6122, 1, 13, 1>>
    /\ Decode(Ids[2]) = <<301, 6122, 6, 13, 1>>

(***************************************************************************)
(* C3: the call fails if and only if some element of some field of the     *)
(* batch is outside its range.                                             *)
(***************************************************************************)
C3_FailsIffOutOfRange ==
    Terminated =>
        ((pc = "raised") <=> (\E k \in 1..N : ~RowValid(data[k])))

C3_Witness ==
    /\ pc = "raised" /\ N = 2
    /\ RowValid(data[1]) /\ ~RowValid(data[2])

(***************************************************************************)
(* C4: camcol = 0, camcol = 7 and run = 2^16 fail; the row with every      *)
(* field at its maximum succeeds and encodes to 0x17FFFFFFCFFFFFFF         *)
(* (written below byte by byte: 17 FF FF FF CF FF FF FF).                  *)
(***************************************************************************)
C4_Boundaries ==
    Terminated =>
        /\ (\E k \in 1..N : data[k].camcol = 0) => pc = "raised"
        /\ (\E k \in 1..N : data[k].camcol = 7) => pc = "raised"
        /\ (\E k \in 1..N : data[k].run = 65536) => pc = "raised"
        /\ data = <<MaxRow>> =>
               /\ pc = "returned"
               /\ Limbs(Ids[1]) =
                     BigFromDigits(<<23, 255, 255, 255, 207, 255, 255, 255>>, 256)

C4_Witness ==
    /\ pc = "returned" /\ data = <<MaxRow>>
    /\ Ids[1] = (0..60) \ {28, 29, 59}

(***************************************************************************)
(* C5: rerun=301, run=6122, camcol=1, field=13, id=1 encodes to            *)
(* 1237671766924263425 (written below in groups of four decimal digits:    *)
(* 123 7671 7669 2426 3425).                                               *)
(***************************************************************************)
C5_KnownExample ==
    pc = "returned" =>
        \A k \in 1..N :
            data[k] = KnownRow =>
                Limbs(Ids[k]) =
                    BigFromDigits(<<123, 7671, 7669, 2426, 3425>>, 10000)

C5_Witness ==
    /\ pc = "returned" /\ data = <<KnownRow>>
    /\ Limbs(Ids[1]) = LayoutSum(KnownRow)

(***************************************************************************)
(* C6: a range error names a field (rerun, run, camcol, field or id) that  *)
(* really has an out-of-range element in the batch.                        *)
(***************************************************************************)
FieldNames == {"rerun", "run", "camcol", "field", "id"}

RangeMessage(f) ==
    CASE f = "rerun" -> "rerun values are out-of-bounds!"
      [] f = "run" -> "run values are out-of-bounds!"
      [] f = "camcol" -> "camcol values are out-of-bounds!"
      [] f = "field" -> "field values are out-of-bounds!"
      [] f = "id" -> "id values are out-of-bounds!"

InRange(f, row) ==
    CASE f = "rerun" -> RerunInRange(row)
      [] f = "run" -> RunInRange(row)
      [] f = "camcol" -> CamcolInRange(row)
      [] f = "field" -> FieldInRange(row)
      [] f = "id" -> IdInRange(row)

C6_ErrorNamesBadField ==
    pc = "raised" =>
        \E f \in FieldNames :
            /\ err = RangeMessage(f)
            /\ \E k \in 1..N : ~InRange(f, data[k])

C6_Witness ==
    /\ pc = "raised" /\ N = 2
    /\ err = "run values are out-of-bounds!"
    /\ RowValid(data[1])
    /\ ~RunInRange(data[2]) /\ RerunInRange(data[2])

(***************************************************************************)
(* C7: validate all, then encode.  Identifiers exist only once every range *)
(* check on the whole batch has passed, and a failing call has computed    *)
(* and returned no identifier at all.                                      *)
(***************************************************************************)
AllChecksPass ==
    /\ ~AnyTrue(MapArr(SkyversionOutOfBounds, skyversion))
    /\ ~AnyTrue(MapArr(RerunOutOfBounds, rerun))
    /\ ~AnyTrue(MapArr(RunOutOfBounds, run))
    /\ ~AnyTrue(MapArr(CamcolOutOfBounds, camcol))
    /\ ~AnyTrue(MapArr(FieldOutOfBounds, field))
    /\ ~AnyTrue(MapArr(ObjnumOutOfBounds, objnum))

C7_ValidateAllThenEncode ==
    /\ objid # <<>> => (pc \in {"return", "returned"} /\ AllChecksPass)
    /\ pc = "raised" => (objid = <<>> /\ ret = <<>>)

C7_Witness ==
    /\ pc = "raised" /\ N = 2
    /\ RowValid(data[1]) /\ ~IdInRange(data[2])
    /\ err = "id values are out-of-bounds!"
    /\ objid = <<>>

(***************************************************************************)
(* C8: a negative run, camcol, field or id always makes the call fail; it  *)
(* is never encoded as if it were an in-range value.                       *)
(***************************************************************************)
HasNegative(row) ==
    row.run < 0 \/ row.camcol < 0 \/ row.field < 0 \/ row.id < 0

C8_NegativeNeverEncoded ==
    Terminated =>
        ((\E k \in 1..N : HasNegative(data[k])) =>
             (pc = "raised" /\ ret = <<>>))

C8_Witness ==
    /\ pc = "raised"
    /\ data = <<[KnownRow EXCEPT !.field = -1]>>
    /\ field[1] = Bits64
    /\ err = "field values are out-of-bounds!"

(***************************************************************************)
(* C9: in every returned identifier bit 63 is 0, bits 59-62 hold the sky   *)
(* version 2 (only bit 60 set) and bit 28 is 0.                            *)
(***************************************************************************)
C9_FixedBits ==
    pc = "returned" =>
        \A k \in 1..Len(Ids) :
            /\ 63 \notin Ids[k]
            /\ Ids[k] \cap (59..62) = {60}
            /\ 28 \notin Ids[k]

C9_Witness ==
    /\ pc = "returned" /\ N = 2
    /\ data[1] = MaxRow /\ data[2] = MinRow
    /\ Ids[1] \cap {28, 59, 60, 61, 62, 63} = {60}

(***************************************************************************)
(* C10: on success there are exactly N identifiers, in input order:        *)
(* element k is the encoding of row k.                                     *)
(***************************************************************************)
C10_OnePerRowInOrder ==
    pc = "returned" =>
        /\ Len(Ids) = N
        /\ \A k \in 1..N : Limbs(Ids[k]) = LayoutSum(data[k])

C10_Witness ==
    /\ pc = "returned" /\ N = 2
    /\ data[1] = MaxRow /\ data[2] = KnownRow
    /\ Ids[1] # Ids[2]
    /\ Limbs(Ids[2]) = LayoutSum(KnownRow)

(***************************************************************************)
(* Floating-point numbers.  The arrays of asinh_mag and auxilliary_colors  *)
(* have the dtype dt of the flux (magnitude) column, a floating-point type *)
(* of finite precision.  It is modelled as a decimal floating-point type   *)
(* of Precision significant digits: the number m * 10^e is the record      *)
(* [m, e] with 10^(Precision-1) <= |m| < 10^Precision, zero is [0, 0],     *)
(* and every operation rounds its exact result to the nearest such number  *)
(* (ties to even), as the binary operations of numpy do.                   *)
(***************************************************************************)
Precision == 4

Dec(m, e) == [m |-> m, e |-> e]

Zero == Dec(0, 0)

Abs(n) == IF n < 0 THEN 0 - n ELSE n

Sign(n) == IF n < 0 THEN 0 - 1 ELSE 1

RECURSIVE NDigits(_)
NDigits(n) == IF n < 10 THEN 1 ELSE 1 + NDigits(n \div 10)

\* n / d rounded to the nearest integer, ties to even (n >= 0, d > 0)
RoundDiv(n, d) ==
    LET q == n \div d
        r == n % d
    IN  IF 2 * r > d \/ (2 * r = d /\ q % 2 = 1) THEN q + 1 ELSE q

\* the number s * n * 10^e (s the sign, n >= 0) rounded to the type
Norm(s, n, e) ==
    IF n = 0 THEN Zero
    ELSE LET k == NDigits(n) - Precision
         IN  IF k > 0
             THEN LET q == RoundDiv(n, 10^k)
                  IN  IF q = 10^Precision
                      THEN Dec(s * 10^(Precision - 1), e + k + 1)
                      ELSE Dec(s * q, e + k)
             ELSE Dec(s * n * 10^(0 - k), e + k)

Neg(a) == Dec(0 - a.m, a.e)

Mul(a, b) == Norm(Sign(a.m) * Sign(b.m), Abs(a.m) * Abs(b.m), a.e + b.e)

Div(a, b) ==
    Norm(Sign(a.m) * Sign(b.m),
         RoundDiv(Abs(a.m) * 10^(Precision + 1), Abs(b.m)),
         a.e - b.e - (Precision + 1))

Add(a, b) ==
    IF a.m = 0 THEN b
    ELSE IF b.m = 0 THEN a
    ELSE LET hi == IF a.e >= b.e THEN a ELSE b
             lo == IF a.e >= b.e THEN b ELSE a
             d == hi.e - lo.e
         IN  IF d > Precision + 1 THEN hi
             ELSE LET n == hi.m * 10^d + lo.m
                  IN  Norm(Sign(n), Abs(n), lo.e)

Sub(a, b) == Add(a, Neg(b))

\* a < b
Less(a, b) == Sub(a, b).m < 0

(***************************************************************************)
(* numpy.arcsinh and numpy.log are library functions: they are tabulated   *)
(* on the arguments that arise, each value being the true value rounded to *)
(* the type.  An entry <<m, e, m2, e2>> maps m*10^e to m2*10^e2.  arcsinh  *)
(* is odd, so that only non-negative arguments are listed.                 *)
(***************************************************************************)
ArcsinhTable ==
    {<<0, 0, 0, 0>>, <<6757, -4, 6326, -4>>, <<6764, -4, 6332, -4>>,
     <<1351, -3, 1109, -3>>, <<2778, -3, 1746, -3>>, <<2781, -3, 1747, -3>>,
     <<3571, -3, 1985, -3>>, <<3575, -3, 1986, -3>>, <<4167, -3, 2134, -3>>,
     <<4171, -3, 2135, -3>>, <<5556, -3, 2416, -3>>, <<5561, -3, 2417, -3>>,
     <<7143, -3, 2664, -3>>, <<8333, -3, 2817, -3>>, <<1111, -2, 3103, -3>>}

LogTable ==
    {<<9000, -14, -2313, -2>>, <<1200, -13, -2284, -2>>,
     <<1400, -13, -2269, -2>>, <<1800, -13, -2244, -2>>,
     <<7400, -13, -2102, -2>>, <<1000, -2, 2303, -3>>}

Lookup(table, x) ==
    LET t == CHOOSE t \in table : t[1] = x.m /\ t[2] = x.e
    IN  Dec(t[3], t[4])

Arcsinh(x) == IF x.m < 0 THEN Neg(Lookup(ArcsinhTable, Neg(x))) ELSE Lookup(ArcsinhTable, x)

Log(x) == Lookup(LogTable, x)

(***************************************************************************)
(* asinh_mag(data, magtype, bands, deredden), lines 498-527.               *)
(*                                                                         *)
(* A record array is the set of its column names together with its rows,   *)
(* each row a function from the column names to numbers.  A column name    *)
(* built by str.format is the tuple of its parts: '{0}flux_{1}' is         *)
(* <<magtype, "flux", band>>.  bands is a string, the sequence of its      *)
(* characters.                                                             *)
(***************************************************************************)
\* mutant: the model flux whatever the magnitude type
FluxCol_model(magtype, band) == <<"model", "flux", band>>

FluxCol(magtype, band) == <<magtype, "flux", band>>

MagCol(magtype, band) == <<magtype, "mag", band>>

ExtCol(band) == <<"extinction", band>>

Range(seq) == {seq[j] : j \in 1..Len(seq)}

\* the tuple of line 521: 1.4e-10, 0.9e-10, 1.2e-10, 1.8e-10, 7.4e-10
Softening ==
    <<Dec(1400, -13), Dec(9000, -14), Dec(1200, -13), Dec(1800, -13),
      Dec(7400, -13)>>

\* numpy.array([Softening], dtype=[(band, dt) for band in bands]): the
\* values are assigned to the fields of the dtype by position
SofteningArray(bands) ==
    [band \in Range(bands) |->
        Softening[CHOOSE j \in 1..Len(bands) : bands[j] = band]]

\* mutant: the sign of C lost
CConst_positive == Div(Dec(2500, -3), Log(Dec(1000, -2)))

\* C = -2.5/numpy.log(10.0), line 520
CConst == Div(Dec(0 - 2500, -3), Log(Dec(1000, -2)))

\* C*(arcsinh((flux*1.0e-9)/(2.0*b)) + log(b)), line 524
AsinhMagOf(flux, bb) ==
    Mul(CConst,
        Add(Arcsinh(Div(Mul(flux, Dec(1000, -12)), Mul(Dec(2000, -3), bb))),
            Log(bb)))

(***************************************************************************)
(* Inputs of asinh_mag.                                                    *)
(***************************************************************************)
Bands5 == <<"u", "g", "r", "i", "z">>

BandIndex(band) == CHOOSE j \in 1..5 : Bands5[j] = band

MagTypes == {"model", "psf"}

RECURSIVE PickBands(_, _)
PickBands(S, j) ==
    IF j > 5 THEN <<>>
    ELSE (IF j \in S THEN <<Bands5[j]>> ELSE <<>>) \o PickBands(S, j + 1)

\* every selection of bands in the order ugriz (the empty one too), three
\* reorderings of the five bands, and a repeated band
BandsVals ==
    {PickBands(S, 1) : S \in SUBSET (1..5)}
    \cup {<<"z", "u", "g", "r", "i">>, <<"z", "i", "r", "g", "u">>,
          <<"g", "u", "r", "z", "i">>, <<"g", "g">>}

FullCols ==
    {<<mt, "flux", band>> : mt \in MagTypes, band \in Range(Bands5)}
    \cup {<<"extinction", band>> : band \in Range(Bands5)}

\* the column sets of the inputs: everything; no extinction column; no
\* extinction_r; only the columns of g, r, i
ColumnSets ==
    {FullCols,
     {c \in FullCols : c[1] # "extinction"},
     FullCols \ {ExtCol("r")},
     {c \in FullCols : c[Len(c)] \in {"g", "r", "i"}}}

\* a row with the model fluxes fm, the psf fluxes fp and the extinctions ex
\* of the bands u, g, r, i, z
FullRow(fm, fp, ex) ==
    [c \in FullCols |->
        IF c[1] = "extinction" THEN ex[BandIndex(c[2])]
        ELSE IF c[1] = "model" THEN fm[BandIndex(c[3])]
        ELSE fp[BandIndex(c[3])]]

\* fluxes in nanomaggies: 0, 1, 1.001, 2, -1
F0 == Zero

F1 == Dec(1000, -3)

F1001 == Dec(1001, -3)

F2 == Dec(2000, -3)

FNeg1 == Dec(0 - 1000, -3)

\* extinctions: 0, 0.1, 0.25
E01 == Dec(1000, -4)

E025 == Dec(2500, -4)

FluxRowA ==
    FullRow(<<F1, F2, F1001, F0, FNeg1>>, <<F2, F1, F0, FNeg1, F1001>>,
            <<E025, E01, Zero, E01, E025>>)

FluxRowB ==
    FullRow(<<F0, F0, F0, F0, F0>>, <<F1, F1, F1, F1, F1>>,
            <<Zero, Zero, Zero, Zero, Zero>>)

FluxRowC ==
    FullRow(<<F2, F1, F1, F1001, F0>>, <<F1001, F1001, F2, F0, F1>>,
            <<E01, E01, E01, E01, E01>>)

FluxRows == {FluxRowA, FluxRowB, FluxRowC}

Restrict(row, names) == [c \in names |-> row[c]]

MagInputs ==
    {[names |-> cs, rows |-> [k \in 1..Len(rs) |-> Restrict(rs[k], cs)]] :
        cs \in ColumnSets, rs \in UNION {[1..n -> FluxRows] : n \in 0..MaxRows}}

(***************************************************************************)
(* The call, statement by statement.  frame holds the locals: b (line      *)
(* 521), mag (line 522, <<>> while unbound, <<a>> once it holds the array  *)
(* a) and the position i of the loop of line 523 in bands.  dt is the one  *)
(* floating-point type of the model, and C is CConst.                      *)
(***************************************************************************)
NRows == Len(data.rows)

MagRaise(msg) ==
    /\ pc' = "raised"
    /\ err' = msg
    /\ UNCHANGED <<args, frame, data, locals, objid, ret>>

\* the error of data[name] when the array has no such column
NoField == "no field of name"

\* line 519: dt = data['{0}flux_{1}'.format(magtype, bands[0])].dtype
MagDtype ==
    /\ pc = "mag_dtype"
    /\ IF args.bands = <<>>
       THEN MagRaise("string index out of range")
       ELSE IF FluxCol(args.magtype, args.bands[1]) \notin data.names
       THEN MagRaise(NoField)
       ELSE /\ pc' = "mag_softening"
            /\ UNCHANGED <<args, frame, data, locals, objid, ret, err>>

\* line 521: a dtype needs distinct field names, and the tuple of five
\* values fits a dtype of five fields only
MagSoftening ==
    /\ pc = "mag_softening"
    /\ IF Cardinality(Range(args.bands)) # Len(args.bands)
       THEN MagRaise("field already used")
       ELSE IF Len(args.bands) # Len(Softening)
       THEN MagRaise("size of tuple must match number of fields.")
       ELSE /\ frame' = [frame EXCEPT !.b = SofteningArray(args.bands)]
            /\ pc' = "mag_alloc"
            /\ UNCHANGED <<args, data, locals, objid, ret, err>>

\* line 522: mag = numpy.zeros(data.shape, dtype=[...mag columns...])
MagAlloc ==
    /\ pc = "mag_alloc"
    /\ LET names == {MagCol(args.magtype, band) : band \in Range(args.bands)}
       IN  frame' = [frame EXCEPT
                       !.mag = << [names |-> names,
                                   rows |-> [k \in 1..NRows |->
                                               [c \in names |-> Zero]]] >>,
                       !.i = 1]
    /\ pc' = "mag_band"
    /\ UNCHANGED <<args, data, locals, objid, ret, err>>

\* mag[col] = values, a whole column at once
SetColumn(arr, col, values) ==
    [arr EXCEPT !.rows = [k \in 1..Len(arr.rows) |->
                            [arr.rows[k] EXCEPT ![col] = values[k]]]]

\* mutant: the extinction subtracted whether or not deredden is set
MagBand_alwaysderedden ==
    /\ pc = "mag_band"
    /\ IF frame.i > Len(args.bands)
       THEN /\ pc' = "mag_return"
            /\ UNCHANGED <<args, frame, data, locals, objid, ret, err>>
       ELSE LET band == args.bands[frame.i]
            IN  IF FluxCol(args.magtype, band) \notin data.names
                THEN MagRaise(NoField)
                ELSE /\ frame' =
                          [frame EXCEPT
                             !.mag = << SetColumn(frame.mag[1],
                                          MagCol(args.magtype, band),
                                          [k \in 1..NRows |->
                                             AsinhMagOf(
                                               data.rows[k][FluxCol(args.magtype, band)],
                                               frame.b[band])]) >>]
                     /\ pc' = "mag_deredden"
                     /\ UNCHANGED <<args, data, locals, objid, ret, err>>

\* mutant: every row computed from the flux of the first row
MagBand_firstrow ==
    /\ pc = "mag_band"
    /\ IF frame.i > Len(args.bands)
       THEN /\ pc' = "mag_return"
            /\ UNCHANGED <<args, frame, data, locals, objid, ret, err>>
       ELSE LET band == args.bands[frame.i]
            IN  IF FluxCol(args.magtype, band) \notin data.names
                THEN MagRaise(NoField)
                ELSE /\ frame' =
                          [frame EXCEPT
                             !.mag = << SetColumn(frame.mag[1],
                                          MagCol(args.magtype, band),
                                          [k \in 1..NRows |->
                                             AsinhMagOf(
                                               data.rows[1][FluxCol(args.magtype, band)],
                                               frame.b[band])]) >>,
                             !.i = IF args.deredden THEN @ ELSE @ + 1]
                     /\ pc' = IF args.deredden THEN "mag_deredden" ELSE "mag_band"
                     /\ UNCHANGED <<args, data, locals, objid, ret, err>>

\* lines 523-524: the next band of the loop, or the end of the loop
MagBand ==
    /\ pc = "mag_band"
    /\ IF frame.i > Len(args.bands)
       THEN /\ pc' = "mag_return"
            /\ UNCHANGED <<args, frame, data, locals, objid, ret, err>>
       ELSE LET band == args.bands[frame.i]
            IN  IF FluxCol(args.magtype, band) \notin data.names
                THEN MagRaise(NoField)
                ELSE /\ frame' =
                          [frame EXCEPT
                             !.mag = << SetColumn(frame.mag[1],
                                          MagCol(args.magtype, band),
                                          [k \in 1..NRows |->
                                             AsinhMagOf(
                                               data.rows[k][FluxCol(args.magtype, band)],
                                               frame.b[band])]) >>,
                             !.i = IF args.deredden THEN @ ELSE @ + 1]
                     /\ pc' = IF args.deredden THEN "mag_deredden" ELSE "mag_band"
                     /\ UNCHANGED <<args, data, locals, objid, ret, err>>

\* mutant: the dereddened magnitude also written over the input's flux column
MagDeredden_inplace ==
    /\ pc = "mag_deredden"
    /\ LET band == args.bands[frame.i]
           col == MagCol(args.magtype, band)
           out == [k \in 1..NRows |->
                     Sub(frame.mag[1].rows[k][col], data.rows[k][ExtCol(band)])]
       IN  IF ExtCol(band) \notin data.names
           THEN MagRaise(NoField)
           ELSE /\ frame' = [frame EXCEPT
                               !.mag = << SetColumn(frame.mag[1], col, out) >>,
                               !.i = @ + 1]
                /\ data' = SetColumn(data, FluxCol(args.magtype, band), out)
                /\ pc' = "mag_band"
                /\ UNCHANGED <<args, locals, objid, ret, err>>

\* mutant: the extinction of the first band subtracted from every band
MagDeredden_firstband ==
    /\ pc = "mag_deredden"
    /\ LET band == args.bands[frame.i]
           col == MagCol(args.magtype, band)
       IN  IF ExtCol(band) \notin data.names
           THEN MagRaise(NoField)
           ELSE /\ frame' =
                     [frame EXCEPT
                        !.mag = << SetColumn(frame.mag[1], col,
                                     [k \in 1..NRows |->
                                        Sub(frame.mag[1].rows[k][col],
                                            data.rows[k][ExtCol(args.bands[1])])]) >>,
                        !.i = @ + 1]
                /\ pc' = "mag_band"
                /\ UNCHANGED <<args, data, locals, objid, ret, err>>

\* lines 525-526: mag[col] -= data['extinction_{0}'.format(band)]
MagDeredden ==
    /\ pc = "mag_deredden"
    /\ LET band == args.bands[frame.i]
           col == MagCol(args.magtype, band)
       IN  IF ExtCol(band) \notin data.names
           THEN MagRaise(NoField)
           ELSE /\ frame' =
                     [frame EXCEPT
                        !.mag = << SetColumn(frame.mag[1], col,
                                     [k \in 1..NRows |->
                                        Sub(frame.mag[1].rows[k][col],
                                            data.rows[k][ExtCol(band)])]) >>,
                        !.i = @ + 1]
                /\ pc' = "mag_band"
                /\ UNCHANGED <<args, data, locals, objid, ret, err>>

\* line 527: return mag
MagReturn ==
    /\ pc = "mag_return"
    /\ ret' = frame.mag
    /\ pc' = "returned"
    /\ UNCHANGED <<args, frame, data, locals, objid, err>>

InitMag ==
    /\ data \in MagInputs
    /\ args \in [fn : {"asinh_mag"}, magtype : MagTypes, bands : BandsVals,
                 deredden : BOOLEAN]
    /\ pc = "mag_dtype"
    /\ frame = [b |-> <<>>, mag |-> <<>>, i |-> 0]
    /\ skyversion = <<>> /\ rerun = <<>> /\ run = <<>> /\ camcol = <<>>
    /\ firstfield = <<>> /\ field = <<>> /\ objnum = <<>>
    /\ objid = <<>> /\ ret = <<>>
    /\ err = ""

NextMag ==
    \/ MagDtype
    \/ MagSoftening
    \/ MagAlloc
    \/ MagBand
    \/ MagDeredden
    \/ MagReturn

SpecMag == InitMag /\ [][NextMag]_vars

(***************************************************************************)
(* Vocabulary of the properties of asinh_mag.  Column names are written    *)
(* out as tuples here, independently of FluxCol, MagCol and ExtCol.        *)
(***************************************************************************)
\* the array handed to the caller
Mags == ret[1]

Requested == Range(args.bands)

\* the softening parameter of each band, as documented
BandSoftening(band) ==
    CASE band = "u" -> Dec(1400, -13)
      [] band = "g" -> Dec(9000, -14)
      [] band = "r" -> Dec(1200, -13)
      [] band = "i" -> Dec(1800, -13)
      [] band = "z" -> Dec(7400, -13)

FluxAt(k, band) == data.rows[k][<<args.magtype, "flux", band>>]

ExtAt(k, band) == data.rows[k][<<"extinction", band>>]

MagAt(k, band) == Mags.rows[k][<<args.magtype, "mag", band>>]

(***************************************************************************)
(* C11: the array returned by asinh_mag has exactly the columns            *)
(* {magtype}mag_{band} of the requested bands, one value per row, and each *)
(* column is computed from the column {magtype}flux_{band} of the same     *)
(* band and magnitude type.                                                *)
(***************************************************************************)
C11_OneMagnitudePerBand ==
    pc = "returned" =>
        /\ Mags.names = {<<args.magtype, "mag", band>> : band \in Requested}
        /\ Len(Mags.rows) = NRows
        /\ \A k \in 1..NRows :
              /\ DOMAIN Mags.rows[k] = Mags.names
              /\ \A band \in Requested :
                    MagAt(k, band) =
                        IF args.deredden
                        THEN Sub(AsinhMagOf(FluxAt(k, band), frame.b[band]),
                                 ExtAt(k, band))
                        ELSE AsinhMagOf(FluxAt(k, band), frame.b[band])

C11_Witness ==
    /\ pc = "returned" /\ args.magtype = "psf" /\ args.bands = Bands5
    /\ ~args.deredden
    /\ data.rows = <<FluxRowA, FluxRowC>>
    /\ MagAt(1, "u") # MagAt(1, "g")
    /\ MagAt(1, "u") = AsinhMagOf(F2, Dec(1400, -13))

(***************************************************************************)
(* C12: for every non-empty selection of bands whose flux columns are in   *)
(* the input (deredden off), the call succeeds and returns magnitudes for  *)
(* exactly the requested bands.                                            *)
(***************************************************************************)
C12_AnyBandSelection ==
    Terminated =>
        (( /\ args.bands # <<>>
           /\ Cardinality(Requested) = Len(args.bands)
           /\ ~args.deredden
           /\ \A band \in Requested :
                 <<args.magtype, "flux", band>> \in data.names )
         => ( /\ pc = "returned"
              /\ Mags.names = {<<args.magtype, "mag", band>> : band \in Requested} ))

(***************************************************************************)
(* C13: the softening parameter used for a band is the constant of that    *)
(* band, whatever the order or the selection of the bands.                 *)
(***************************************************************************)
C13_SofteningOfTheBand ==
    frame.b # <<>> =>
        \A band \in Requested : frame.b[band] = BandSoftening(band)

(***************************************************************************)
(* C14: with deredden off, a flux of 0 in a band gives the magnitude       *)
(* (-2.5/ln 10) * ln(b) for the b of that band.                            *)
(***************************************************************************)
C14_ZeroFlux ==
    (pc = "returned" /\ ~args.deredden) =>
        \A k \in 1..NRows : \A band \in Requested :
            FluxAt(k, band) = Zero =>
                MagAt(k, band) = Mul(CConst, Log(BandSoftening(band)))

(***************************************************************************)
(* C15 (as stated): for two fluxes f1 < f2 of a band, with the same        *)
(* extinction applied to both, the magnitude of f2 is strictly smaller     *)
(* than the magnitude of f1.                                               *)
(***************************************************************************)
SameExtinction(j, k, band) ==
    args.deredden => ExtAt(j, band) = ExtAt(k, band)

C15_StrictlyDecreasing ==
    pc = "returned" =>
        \A j, k \in 1..NRows : \A band \in Requested :
            (Less(FluxAt(j, band), FluxAt(k, band)) /\ SameExtinction(j, k, band))
                => Less(MagAt(k, band), MagAt(j, band))

(***************************************************************************)
(* C15 (amended): for two fluxes f1 < f2 of a band, with the same          *)
(* extinction applied to both, the magnitude of f2 is never larger than    *)
(* the magnitude of f1; the two are equal when the results round to the    *)
(* same floating-point number.                                             *)
(***************************************************************************)
C15_NonIncreasing ==
    pc = "returned" =>
        \A j, k \in 1..NRows : \A band \in Requested :
            (Less(FluxAt(j, band), FluxAt(k, band)) /\ SameExtinction(j, k, band))
                => ~Less(MagAt(j, band), MagAt(k, band))

C15_Witness ==
    /\ pc = "returned" /\ args.magtype = "psf" /\ ~args.deredden
    /\ NRows = 2
    /\ FluxAt(1, "g") = F1 /\ FluxAt(2, "g") = F1001
    /\ MagAt(1, "g") = MagAt(2, "g")
    /\ FluxAt(1, "r") = F1 /\ FluxAt(2, "r") = F2
    /\ Less(MagAt(2, "r"), MagAt(1, "r"))

(***************************************************************************)
(* C16: dereddening subtracts from the magnitude of each band and row --   *)
(* the value returned with deredden off -- the extinction of that same     *)
(* band and row, and touches no other value.                               *)
(***************************************************************************)
C16_DereddenSameBandAndRow ==
    [][(pc = "mag_deredden" /\ pc' = "mag_band") =>
          LET band == args.bands[frame.i]
              col == <<args.magtype, "mag", band>>
          IN  \A k \in 1..NRows :
                 /\ frame.mag[1].rows[k][col] =
                        AsinhMagOf(FluxAt(k, band), frame.b[band])
                 /\ frame'.mag[1].rows[k] =
                        [frame.mag[1].rows[k] EXCEPT
                            ![col] = Sub(@, ExtAt(k, band))]]_vars

C16_Witness ==
    /\ pc = "returned" /\ args.deredden /\ args.magtype = "model"
    /\ data.rows = <<FluxRowA>>
    /\ MagAt(1, "u") = Sub(AsinhMagOf(F1, Dec(1400, -13)), E025)
    /\ MagAt(1, "u") # AsinhMagOf(F1, Dec(1400, -13))
    /\ MagAt(1, "g") = Sub(AsinhMagOf(F2, Dec(9000, -14)), E01)

(***************************************************************************)
(* C17: when dereddening is requested and the extinction column of some    *)
(* requested band is absent, the call fails with a missing-field error and *)
(* returns nothing.                                                        *)
(***************************************************************************)
C17_MissingExtinction ==
    Terminated =>
        (( /\ args.deredden
           /\ \E band \in Requested : <<"extinction", band>> \notin data.names )
         => (pc = "raised" /\ err = "no field of name" /\ ret = <<>>))

(***************************************************************************)
(* auxilliary_colors(data, bands), lines 530-553.  data holds the columns  *)
(* modelmag_{band}; the result has the columns c_par, c_perp and d_perp.   *)
(***************************************************************************)
ModelMag(row, band) == row[MagCol("model", band)]

\* lines 547-548
CParOf(g, r, i) ==
    Add(Mul(Dec(7000, -4), Sub(g, r)),
        Mul(Dec(1200, -3), Sub(Sub(r, i), Dec(1800, -4))))

\* mutant: the divisor of d_perp
CPerpOf_8(g, r, i) ==
    Sub(Sub(Sub(r, i), Div(Sub(g, r), Dec(8000, -3))), Dec(1800, -4))

\* lines 549-550
CPerpOf(g, r, i) ==
    Sub(Sub(Sub(r, i), Div(Sub(g, r), Dec(4000, -3))), Dec(1800, -4))

\* lines 551-552
DPerpOf(g, r, i) == Sub(Sub(r, i), Div(Sub(g, r), Dec(8000, -3)))

(***************************************************************************)
(* Inputs of auxilliary_colors: magnitudes u, g, r, i, z of three objects, *)
(* the second argument left at its default or given, and arrays that lack  *)
(* some of the columns.                                                    *)
(***************************************************************************)
\* a magnitude given in hundredths, e.g. 2000 for 20.00
Centi(n) == Dec(n, -2)

AllMagCols == {<<"model", "mag", band>> : band \in Range(Bands5)}

MagRow(u, g, r, i, z) ==
    [c \in AllMagCols |-> <<u, g, r, i, z>>[BandIndex(c[3])]]

MagRowKnown ==
    MagRow(Centi(2100), Centi(2000), Centi(1900), Centi(1850), Centi(1800))

MagRowRed ==
    MagRow(Centi(2200), Centi(2150), Centi(2000), Centi(1950), Centi(1900))

MagRowBlue ==
    MagRow(Centi(1800), Centi(1850), Centi(1900), Centi(1950), Centi(2000))

MagRows == {MagRowKnown, MagRowRed, MagRowBlue}

AuxColumnSets ==
    {AllMagCols}
    \cup {AllMagCols \ {<<"model", "mag", band>>} : band \in Range(Bands5)}
    \cup {{<<"model", "mag", band>> : band \in {"g", "r", "i"}}}

AuxInputs ==
    {[names |-> cs, rows |-> [k \in 1..Len(rs) |-> Restrict(rs[k], cs)]] :
        cs \in AuxColumnSets, rs \in UNION {[1..n -> MagRows] : n \in 0..MaxRows}}

AuxBandsVals == {Bands5, <<"g", "r", "i">>, <<"i">>, <<>>}

\* line 545: dt = data['modelmag_{0}'.format(bands[0])].dtype
AuxDtype ==
    /\ pc = "aux_dtype"
    /\ IF args.bands = <<>>
       THEN MagRaise("string index out of range")
       ELSE IF MagCol("model", args.bands[1]) \notin data.names
       THEN MagRaise(NoField)
       ELSE /\ pc' = "aux_alloc"
            /\ UNCHANGED <<args, frame, data, locals, objid, ret, err>>

\* line 546: aux = numpy.zeros(data.shape, dtype=[c_par, c_perp, d_perp])
AuxAlloc ==
    /\ pc = "aux_alloc"
    /\ frame' = [frame EXCEPT
                   !.aux = << [names |-> {"c_par", "c_perp", "d_perp"},
                               rows |-> [k \in 1..NRows |->
                                           [c_par |-> Zero, c_perp |-> Zero,
                                            d_perp |-> Zero]]] >>]
    /\ pc' = "aux_c_par"
    /\ UNCHANGED <<args, data, locals, objid, ret, err>>

\* the columns read by each of the three assignments
HasGri ==
    {MagCol("model", "g"), MagCol("model", "r"), MagCol("model", "i")}
        \subseteq data.names

\* the value of one of the three expressions in every row
PerRow(col) ==
    [k \in 1..NRows |->
       LET g == ModelMag(data.rows[k], "g")
           r == ModelMag(data.rows[k], "r")
           i == ModelMag(data.rows[k], "i")
       IN  CASE col = "c_par" -> CParOf(g, r, i)
             [] col = "c_perp" -> CPerpOf(g, r, i)
             [] col = "d_perp" -> DPerpOf(g, r, i)]

\* aux[col] = expression of modelmag_g, modelmag_r, modelmag_i; then the
\* next statement
AuxAssign(col, next) ==
    IF ~HasGri
    THEN MagRaise(NoField)
    ELSE /\ frame' = [frame EXCEPT
                        !.aux = << SetColumn(frame.aux[1], col, PerRow(col)) >>]
         /\ pc' = next
         /\ UNCHANGED <<args, data, locals, objid, ret, err>>

AuxCPar == pc = "aux_c_par" /\ AuxAssign("c_par", "aux_c_perp")

AuxCPerp == pc = "aux_c_perp" /\ AuxAssign("c_perp", "aux_d_perp")

AuxDPerp == pc = "aux_d_perp" /\ AuxAssign("d_perp", "aux_return")

\* line 553: return aux
AuxReturn ==
    /\ pc = "aux_return"
    /\ ret' = frame.aux
    /\ pc' = "returned"
    /\ UNCHANGED <<args, frame, data, locals, objid, err>>

InitAux ==
    /\ data \in AuxInputs
    /\ args \in [fn : {"auxilliary_colors"}, bands : AuxBandsVals]
    /\ pc = "aux_dtype"
    /\ frame = [aux |-> <<>>]
    /\ skyversion = <<>> /\ rerun = <<>> /\ run = <<>> /\ camcol = <<>>
    /\ firstfield = <<>> /\ field = <<>> /\ objnum = <<>>
    /\ objid = <<>> /\ ret = <<>>
    /\ err = ""

NextAux ==
    \/ AuxDtype
    \/ AuxAlloc
    \/ AuxCPar
    \/ AuxCPerp
    \/ AuxDPerp
    \/ AuxReturn

SpecAux == InitAux /\ [][NextAux]_vars

(***************************************************************************)
(* Vocabulary of the properties of auxilliary_colors.  A magnitude with    *)
(* two decimals is the integer of its hundredths, so that the formulas can *)
(* be evaluated exactly in integers and then written as a number of the    *)
(* floating-point type.                                                    *)
(***************************************************************************)
Aux == ret[1]

Hundredths(x) == x.m * 10^(x.e + 2)

GOf(k) == Hundredths(data.rows[k][<<"model", "mag", "g">>])

ROf(k) == Hundredths(data.rows[k][<<"model", "mag", "r">>])

IOf(k) == Hundredths(data.rows[k][<<"model", "mag", "i">>])

\* the number n / 10^d, for an integer n
Scaled(n, d) == Norm(Sign(n), Abs(n), 0 - d)

(***************************************************************************)
(* C18: per row, c_par = 0.7*(g-r) + 1.2*(r-i-0.18), c_perp = (r-i) -      *)
(* (g-r)/4 - 0.18 and d_perp = (r-i) - (g-r)/8; for g=20.0, r=19.0, i=18.5 *)
(* they are 1.084, 0.07 and 0.375.                                         *)
(***************************************************************************)
C18_AuxiliaryColours ==
    pc = "returned" =>
        \A k \in 1..NRows :
            /\ Aux.rows[k].c_par =
                   Scaled(7 * (GOf(k) - ROf(k)) + 12 * (ROf(k) - IOf(k) - 18), 3)
            /\ Aux.rows[k].c_perp =
                   Scaled(100 * (ROf(k) - IOf(k)) - 25 * (GOf(k) - ROf(k)) - 1800, 4)
            /\ Aux.rows[k].d_perp =
                   Scaled(1000 * (ROf(k) - IOf(k)) - 125 * (GOf(k) - ROf(k)), 5)
            /\ (GOf(k) = 2000 /\ ROf(k) = 1900 /\ IOf(k) = 1850) =>
                   /\ Aux.rows[k].c_par = Dec(1084, -3)
                   /\ Aux.rows[k].c_perp = Dec(7000, -5)
                   /\ Aux.rows[k].d_perp = Dec(3750, -4)

C18_Witness ==
    /\ pc = "returned" /\ NRows = 2
    /\ data.rows[1] = MagRowKnown /\ data.rows[2] = MagRowBlue
    /\ Aux.rows[1] = [c_par |-> Dec(1084, -3), c_perp |-> Dec(7000, -5),
                      d_perp |-> Dec(3750, -4)]
    /\ Aux.rows[2].d_perp = Dec(0 - 4375, -4)

(***************************************************************************)
(* C19: called with its default arguments, auxilliary_colors needs only    *)
(* modelmag_g, modelmag_r and modelmag_i: it returns one triple per row    *)
(* when the three are present and fails exactly when one of them is        *)
(* absent.                                                                 *)
(***************************************************************************)
GriPresent ==
    {<<"model", "mag", "g">>, <<"model", "mag", "r">>, <<"model", "mag", "i">>}
        \subseteq data.names

C19_NeedsOnlyGri ==
    (Terminated /\ args.bands = Bands5) =>
        /\ (pc = "raised") <=> ~GriPresent
        /\ pc = "raised" => err = "no field of name"
        /\ pc = "returned" => Len(Aux.rows) = NRows

(***************************************************************************)
(* The three functions together: one call of sdss_objid, asinh_mag or      *)
(* auxilliary_colors on an input array, run to its return or its           *)
(* exception.                                                              *)
(***************************************************************************)
InitPure == Init \/ InitMag \/ InitAux

NextPure == Next \/ NextMag \/ NextAux

SpecPure == InitPure /\ [][NextPure]_vars

(***************************************************************************)
(* C20: sdss_objid, asinh_mag and auxilliary_colors never change their     *)
(* input: no step of a call, successful or failing, changes a column of    *)
(* the array it was given.                                                 *)
(***************************************************************************)
C20_InputUnchanged == [][data' = data]_vars

C20_Witness ==
    /\ pc = "returned"
    /\ args.fn = "asinh_mag" /\ args.deredden /\ args.bands = Bands5
    /\ args.magtype = "model"
    /\ data.rows = << Restrict(FluxRowA, data.names) >>
    /\ data.names = FullCols
    /\ \A band \in Range(Bands5) :
          ret[1].rows[1][<<"model", "mag", band>>]
              # data.rows[1][<<"model", "flux", band>>]

(***************************************************************************)
(* A batch call followed by a call of the same function, with the same     *)
(* other arguments, on one row of the batch alone.  The result of the      *)
(* batch call and the number of the row are kept in args (fields batch and *)
(* row) while the second call runs.                                        *)
(***************************************************************************)
IsObjidCall == args.fn = "sdss_objid"

\* the number of rows of the argument, data.shape[0]
RowCount == IF IsObjidCall THEN Len(data) ELSE Len(data.rows)

\* data[k:k+1]
OneRow(k) ==
    IF IsObjidCall THEN << data[k] >>
    ELSE [names |-> data.names, rows |-> << data.rows[k] >>]

\* the first statement of the function and its unbound locals
EntryPc ==
    CASE args.fn = "sdss_objid" -> "convert"
      [] args.fn = "asinh_mag" -> "mag_dtype"
      [] args.fn = "auxilliary_colors" -> "aux_dtype"

EntryFrame ==
    CASE args.fn = "sdss_objid" -> <<>>
      [] args.fn = "asinh_mag" -> [b |-> <<>>, mag |-> <<>>, i |-> 0]
      [] args.fn = "auxilliary_colors" -> [aux |-> <<>>]

ArgsOfRowCall(k) ==
    CASE args.fn = "sdss_objid" ->
             [fn |-> args.fn, batch |-> ret[1], row |-> k]
      [] args.fn = "asinh_mag" ->
             [fn |-> args.fn, magtype |-> args.magtype, bands |-> args.bands,
              deredden |-> args.deredden, batch |-> ret[1], row |-> k]
      [] args.fn = "auxilliary_colors" ->
             [fn |-> args.fn, bands |-> args.bands, batch |-> ret[1], row |-> k]

IsRowCall == "row" \in DOMAIN args

CallOnRow ==
    /\ pc = "returned"
    /\ ~IsRowCall
    /\ \E k \in 1..RowCount :
          /\ data' = OneRow(k)
          /\ args' = ArgsOfRowCall(k)
    /\ pc' = EntryPc
    /\ frame' = EntryFrame
    /\ skyversion' = <<>> /\ rerun' = <<>> /\ run' = <<>> /\ camcol' = <<>>
    /\ firstfield' = <<>> /\ field' = <<>> /\ objnum' = <<>>
    /\ objid' = <<>> /\ ret' = <<>>
    /\ err' = ""

NextRows == NextPure \/ CallOnRow

SpecRows == InitPure /\ [][NextRows]_vars

(***************************************************************************)
(* C21: batch and per-row evaluation agree.  After a batch call that       *)
(* succeeded, the call on row k alone succeeds too and returns exactly     *)
(* one row, equal to row k of the batch result, for sdss_objid, asinh_mag  *)
(* and auxilliary_colors alike.                                            *)
(***************************************************************************)
ResultRows(a) == IF args.fn = "sdss_objid" THEN a ELSE a.rows

C21_BatchEqualsPerRow ==
    (Terminated /\ "row" \in DOMAIN args) =>
        /\ pc = "returned"
        /\ ResultRows(ret[1]) = << ResultRows(args.batch)[args.row] >>

C21_Witness ==
    /\ pc = "returned"
    /\ "row" \in DOMAIN args /\ args.row = 2
    /\ args.fn = "asinh_mag" /\ args.deredden
    /\ args.batch.rows[1] # args.batch.rows[2]
    /\ ret[1].rows = << args.batch.rows[2] >>

(***************************************************************************)
(* A call of asinh_mag with deredden off followed by the same call on an   *)
(* array that differs from the first only in its extinction columns:       *)
(* they are dropped, or present with other values.  The outcome of the     *)
(* first call is kept in args (field first) while the second call runs.    *)
(***************************************************************************)
ExtinctionCols == {<<"extinction", band>> : band \in Range(Bands5)}

\* data with its extinction columns replaced by the columns cols, all of
\* value v
WithExtinction(cols, v) ==
    LET names == (data.names \ ExtinctionCols) \cup cols
    IN  [names |-> names,
         rows |-> [k \in 1..NRows |->
                     [c \in names |-> IF c \in cols THEN v ELSE data.rows[k][c]]]]

ExtinctionVariants ==
    {WithExtinction(cols, v) : cols \in {{}, ExtinctionCols}, v \in {E01, E025}}
        \ {data}

IsSecondCall == "first" \in DOMAIN args

CallWithOtherExtinction ==
    /\ Terminated
    /\ ~args.deredden
    /\ ~IsSecondCall
    /\ data' \in ExtinctionVariants
    /\ args' = [fn |-> args.fn, magtype |-> args.magtype, bands |-> args.bands,
                deredden |-> args.deredden,
                first |-> [pc |-> pc, err |-> err, ret |-> ret, data |-> data]]
    /\ pc' = "mag_dtype"
    /\ frame' = [b |-> <<>>, mag |-> <<>>, i |-> 0]
    /\ ret' = <<>>
    /\ err' = ""
    /\ UNCHANGED <<locals, objid>>

NextExt == NextMag \/ CallWithOtherExtinction

SpecExt == InitMag /\ [][NextExt]_vars

(***************************************************************************)
(* C22: with deredden off asinh_mag neither requires nor reads the         *)
(* extinction columns.  Two calls on arrays that differ only in their      *)
(* extinction columns (absent, or of other values) end the same way, and   *)
(* when they return they return identical magnitudes; in particular the    *)
(* absence of the extinction columns never makes a call fail.              *)
(***************************************************************************)
C22_ExtinctionIgnored ==
    (Terminated /\ "first" \in DOMAIN args) =>
        /\ pc = args.first.pc
        /\ err = args.first.err
        /\ ret = args.first.ret

C22_Witness ==
    /\ pc = "returned"
    /\ "first" \in DOMAIN args
    /\ args.bands = Bands5
    /\ data.names \cap {<<"extinction", band>> : band \in Range(Bands5)} = {}
    /\ args.first.data.names = FullCols
    /\ NRows = 2
    /\ ret = args.first.ret
    /\ ret[1].rows[1][<<args.magtype, "mag", "r">>] # Zero

(***************************************************************************)
(* The target-selection cells, lines 681-702.  The magnitudes returned by  *)
(* the four calls of asinh_mag (lines 677-680) and the column theta_dev_i  *)
(* of the query result are the input: one table, data, whose columns are   *)
(* named as in those arrays.  The locals of the cells are in frame:        *)
(* rdev_i, auxcolor and the two masks LOWZ and CMASS.                      *)
(***************************************************************************)
AbsDec(x) == Dec(Abs(x.m), x.e)

Greater(a, b) == Less(b, a)

ThetaDevCol(band) == <<"theta_dev", band>>

\* mutant: cmodelmag_r >= 16.0
LowzOf_geq(cmr, psfr, cpar, cperp) ==
    /\ Less(cmr, Add(Dec(1350, -2), Div(cpar, Dec(3000, -4))))
    /\ Less(AbsDec(cperp), Dec(2000, -4))
    /\ ~Less(cmr, Dec(1600, -2))
    /\ Less(cmr, Dec(1960, -2))
    /\ Greater(Sub(psfr, cmr), Dec(3000, -4))

\* lines 691-694, one element of the mask
LowzOf(cmr, psfr, cpar, cperp) ==
    /\ Less(cmr, Add(Dec(1350, -2), Div(cpar, Dec(3000, -4))))
    /\ Less(AbsDec(cperp), Dec(2000, -4))
    /\ Greater(cmr, Dec(1600, -2))
    /\ Less(cmr, Dec(1960, -2))
    /\ Greater(Sub(psfr, cmr), Dec(3000, -4))

\* mutant: d_perp >= 0.55
CmassOf_geq(cmi, dperp, psfi, mi, psfz, mz, mr, fib2i, rdevi) ==
    /\ Less(cmi, Add(Dec(1986, -2),
                     Mul(Dec(1600, -3), Sub(dperp, Dec(8000, -4)))))
    /\ Greater(cmi, Dec(1750, -2))
    /\ Less(cmi, Dec(1990, -2))
    /\ ~Less(dperp, Dec(5500, -4))
    /\ Greater(Sub(psfi, mi),
               Add(Dec(2000, -4),
                   Mul(Dec(2000, -4), Sub(Dec(2000, -2), mi))))
    /\ Greater(Sub(psfz, mz), Sub(Dec(9125, -3), Mul(Dec(4600, -4), mz)))
    /\ Less(Sub(mr, mi), Dec(2000, -3))
    /\ Less(fib2i, Dec(2150, -2))
    /\ Less(rdevi, Dec(2000, -2))

\* lines 695-702, one element of the mask
CmassOf(cmi, dperp, psfi, mi, psfz, mz, mr, fib2i, rdevi) ==
    /\ Less(cmi, Add(Dec(1986, -2),
                     Mul(Dec(1600, -3), Sub(dperp, Dec(8000, -4)))))
    /\ Greater(cmi, Dec(1750, -2))
    /\ Less(cmi, Dec(1990, -2))
    /\ Greater(dperp, Dec(5500, -4))
    /\ Greater(Sub(psfi, mi),
               Add(Dec(2000, -4),
                   Mul(Dec(2000, -4), Sub(Dec(2000, -2), mi))))
    /\ Greater(Sub(psfz, mz), Sub(Dec(9125, -3), Mul(Dec(4600, -4), mz)))
    /\ Less(Sub(mr, mi), Dec(2000, -3))
    /\ Less(fib2i, Dec(2150, -2))
    /\ Less(rdevi, Dec(2000, -2))

\* line 681: rdev_i = result.array['theta_dev_i']/0.396
SelRdev ==
    /\ pc = "sel_rdev"
    /\ frame' = [frame EXCEPT
                   !.rdev_i = << [k \in 1..NRows |->
                                    Div(data.rows[k][ThetaDevCol("i")],
                                        Dec(3960, -4))] >>]
    /\ pc' = "sel_aux"
    /\ UNCHANGED <<args, data, locals, objid, ret, err>>

\* line 682: auxcolor = auxilliary_colors(modelmag), the whole call; modelmag
\* has the five columns of the default bands, so the call returns
SelAux ==
    /\ pc = "sel_aux"
    /\ frame' = [frame EXCEPT
                   !.auxcolor = << [names |-> {"c_par", "c_perp", "d_perp"},
                                    rows |-> [k \in 1..NRows |->
                                                [c_par |-> PerRow("c_par")[k],
                                                 c_perp |-> PerRow("c_perp")[k],
                                                 d_perp |-> PerRow("d_perp")[k]]]] >>]
    /\ pc' = "sel_lowz"
    /\ UNCHANGED <<args, data, locals, objid, ret, err>>

\* lines 691-694: LOWZ = (...) & (...) & (...) & (...) & (...)
SelLowz ==
    /\ pc = "sel_lowz"
    /\ frame' = [frame EXCEPT
                   !.LOWZ = << [k \in 1..NRows |->
                                  LowzOf(data.rows[k][MagCol("cmodel", "r")],
                                         data.rows[k][MagCol("psf", "r")],
                                         frame.auxcolor[1].rows[k].c_par,
                                         frame.auxcolor[1].rows[k].c_perp)] >>]
    /\ pc' = "sel_cmass"
    /\ UNCHANGED <<args, data, locals, objid, ret, err>>

\* lines 695-702: CMASS = (...) & ... & (rdev_i < 20)
SelCmass ==
    /\ pc = "sel_cmass"
    /\ frame' = [frame EXCEPT
                   !.CMASS = << [k \in 1..NRows |->
                                   CmassOf(data.rows[k][MagCol("cmodel", "i")],
                                           frame.auxcolor[1].rows[k].d_perp,
                                           data.rows[k][MagCol("psf", "i")],
                                           data.rows[k][MagCol("model", "i")],
                                           data.rows[k][MagCol("psf", "z")],
                                           data.rows[k][MagCol("model", "z")],
                                           data.rows[k][MagCol("model", "r")],
                                           data.rows[k][MagCol("fiber2", "i")],
                                           frame.rdev_i[1][k])] >>]
    /\ pc' = "sel_done"
    /\ UNCHANGED <<args, data, locals, objid, ret, err>>

(***************************************************************************)
(* Inputs of the selection cells.  An object is written as a record of     *)
(* its magnitudes in thousandths of a magnitude (theta_dev_i in            *)
(* thousandths of an arcsecond).  There is one object selected by LOWZ and *)
(* one selected by CMASS; the others are one of these with a value moved   *)
(* onto a threshold or across it.                                          *)
(***************************************************************************)
\* the number n / 1000
Milli(n) == Norm(Sign(n), Abs(n), 0 - 3)

SelCols ==
    {<<"model", "mag", band>> : band \in {"u", "g", "r", "i", "z"}}
    \cup {<<"cmodel", "mag", "r">>, <<"cmodel", "mag", "i">>,
          <<"psf", "mag", "r">>, <<"psf", "mag", "i">>, <<"psf", "mag", "z">>,
          <<"fiber2", "mag", "i">>, <<"theta_dev", "i">>}

SelRow(o) ==
    [c \in SelCols |->
       Milli(CASE c = <<"model", "mag", "u">> -> o.mu
               [] c = <<"model", "mag", "g">> -> o.mg
               [] c = <<"model", "mag", "r">> -> o.mr
               [] c = <<"model", "mag", "i">> -> o.mi
               [] c = <<"model", "mag", "z">> -> o.mz
               [] c = <<"cmodel", "mag", "r">> -> o.cmr
               [] c = <<"cmodel", "mag", "i">> -> o.cmi
               [] c = <<"psf", "mag", "r">> -> o.psfr
               [] c = <<"psf", "mag", "i">> -> o.psfi
               [] c = <<"psf", "mag", "z">> -> o.psfz
               [] c = <<"fiber2", "mag", "i">> -> o.fib2i
               [] c = <<"theta_dev", "i">> -> o.theta)]

LowzObject ==
    [mu |-> 21000, mg |-> 19500, mr |-> 18000, mi |-> 17500, mz |-> 18750,
     cmr |-> 17000, cmi |-> 19000, psfr |-> 19000, psfi |-> 19500,
     psfz |-> 19750, fib2i |-> 21000, theta |-> 3960]

\* a fainter and redder object, selected by LOWZ up to cmodelmag_r = 19.6
FaintObject == [LowzObject EXCEPT !.mg = 20000, !.mi = 17300, !.cmr = 19500,
                                  !.psfr = 20000]

CmassObject ==
    [mu |-> 22000, mg |-> 21600, mr |-> 20000, mi |-> 19000, mz |-> 18750,
     cmr |-> 17000, cmi |-> 19000, psfr |-> 19000, psfi |-> 19500,
     psfz |-> 19750, fib2i |-> 21000, theta |-> 3960]

LowzObjects ==
    {LowzObject, FaintObject}
    \cup {[LowzObject EXCEPT !.cmr = v] : v \in {15000, 16000, 18280, 19000}}
    \cup {[LowzObject EXCEPT !.psfr = 17300]}
    \cup {[LowzObject EXCEPT !.mg = 19600, !.mi = v] : v \in {17220, 17230, 17620}}
    \cup {[FaintObject EXCEPT !.cmr = 19600]}

CmassObjects ==
    {CmassObject}
    \cup {[CmassObject EXCEPT !.cmi = v] : v \in {17000, 17500, 19860}}
    \cup {[CmassObject EXCEPT !.mi = 18500, !.cmi = 19900]}
    \cup {[CmassObject EXCEPT !.mi = 19250, !.psfi = 20000]}
    \cup {[CmassObject EXCEPT !.psfi = 19400]}
    \cup {[CmassObject EXCEPT !.psfz = 19250]}
    \cup {[CmassObject EXCEPT !.mi = 18000]}
    \cup {[CmassObject EXCEPT !.fib2i = 21500]}
    \cup {[CmassObject EXCEPT !.theta = v] : v \in {7920, 9900}}

SelObjects == LowzObjects \cup CmassObjects

SelInputs ==
    {[names |-> SelCols, rows |-> [k \in 1..Len(os) |-> SelRow(os[k])]] :
        os \in UNION {[1..n -> SelObjects] : n \in 0..MaxRows}}

InitSel ==
    /\ data \in SelInputs
    /\ args = [fn |-> "selection"]
    /\ pc = "sel_rdev"
    /\ frame = [rdev_i |-> <<>>, auxcolor |-> <<>>, LOWZ |-> <<>>, CMASS |-> <<>>]
    /\ skyversion = <<>> /\ rerun = <<>> /\ run = <<>> /\ camcol = <<>>
    /\ firstfield = <<>> /\ field = <<>> /\ objnum = <<>>
    /\ objid = <<>> /\ ret = <<>>
    /\ err = ""

NextSel ==
    \/ SelRdev
    \/ SelAux
    \/ SelLowz
    \/ SelCmass

SpecSel == InitSel /\ [][NextSel]_vars

(***************************************************************************)
(* Vocabulary of the properties of the masks: the magnitudes of row k as   *)
(* integers of thousandths, so that every comparison can be made exactly   *)
(* in integers, with both sides multiplied by their common denominator.    *)
(***************************************************************************)
Thousandths(x) == x.m * 10^(x.e + 3)

At(k, c) == Thousandths(data.rows[k][c])

\* g-r and r-i of the model magnitudes
GmR(k) == At(k, <<"model", "mag", "g">>) - At(k, <<"model", "mag", "r">>)

RmI(k) == At(k, <<"model", "mag", "r">>) - At(k, <<"model", "mag", "i">>)

\* 10000 * c_par, 4000 * c_perp and 8000 * d_perp
CPar10000(k) == 7 * GmR(k) + 12 * (RmI(k) - 180)

CPerp4000(k) == 4 * RmI(k) - GmR(k) - 720

DPerp8000(k) == 8 * RmI(k) - GmR(k)

(***************************************************************************)
(* C23: LOWZ selects a row exactly when cmodelmag_r < 13.5 + c_par/0.3,    *)
(* |c_perp| < 0.2, cmodelmag_r > 16.0, cmodelmag_r < 19.6 and              *)
(* psfmag_r - cmodelmag_r > 0.3, all strict: a row with cmodelmag_r = 16.0 *)
(* or |c_perp| = 0.2 is not selected.                                      *)
(***************************************************************************)
LowzExact(k) ==
    LET cmr == At(k, <<"cmodel", "mag", "r">>)
        psfr == At(k, <<"psf", "mag", "r">>)
    IN  /\ 3 * cmr < 40500 + CPar10000(k)
        /\ Abs(CPerp4000(k)) < 800
        /\ cmr > 16000
        /\ cmr < 19600
        /\ psfr - cmr > 300

C23_LowzMask ==
    pc = "sel_done" =>
        /\ Len(frame.LOWZ[1]) = NRows
        /\ \A k \in 1..NRows :
              /\ frame.LOWZ[1][k] <=> LowzExact(k)
              /\ At(k, <<"cmodel", "mag", "r">>) = 16000 => ~frame.LOWZ[1][k]
              /\ Abs(CPerp4000(k)) = 800 => ~frame.LOWZ[1][k]

C23_Witness ==
    /\ pc = "sel_done" /\ NRows = 2
    /\ data.rows[1] = SelRow(LowzObject)
    /\ data.rows[2] = SelRow([LowzObject EXCEPT !.cmr = 16000])
    /\ frame.LOWZ[1] = <<TRUE, FALSE>>

(***************************************************************************)
(* C24: CMASS selects a row exactly when cmodelmag_i < 19.86 +             *)
(* 1.6*(d_perp - 0.8), 17.5 < cmodelmag_i < 19.9, d_perp > 0.55,           *)
(* psfmag_i - modelmag_i > 0.2 + 0.2*(20.0 - modelmag_i),                  *)
(* psfmag_z - modelmag_z > 9.125 - 0.46*modelmag_z,                        *)
(* modelmag_r - modelmag_i < 2, fiber2mag_i < 21.5 and                     *)
(* theta_dev_i/0.396 < 20; so every selected row has d_perp > 0.55 and     *)
(* 17.5 < cmodelmag_i < 19.9.                                              *)
(***************************************************************************)
CmassExact(k) ==
    LET cmi == At(k, <<"cmodel", "mag", "i">>)
        psfi == At(k, <<"psf", "mag", "i">>)
        psfz == At(k, <<"psf", "mag", "z">>)
        mi == At(k, <<"model", "mag", "i">>)
        mz == At(k, <<"model", "mag", "z">>)
    IN  /\ 5 * cmi < 92900 + DPerp8000(k)
        /\ cmi > 17500
        /\ cmi < 19900
        /\ DPerp8000(k) > 4400
        /\ 5 * (psfi - mi) > 1000 + (20000 - mi)
        /\ 100 * (psfz - mz) > 912500 - 46 * mz
        /\ RmI(k) < 2000
        /\ At(k, <<"fiber2", "mag", "i">>) < 21500
        /\ At(k, <<"theta_dev", "i">>) < 7920

C24_CmassMask ==
    pc = "sel_done" =>
        /\ Len(frame.CMASS[1]) = NRows
        /\ \A k \in 1..NRows :
              /\ frame.CMASS[1][k] <=> CmassExact(k)
              /\ frame.CMASS[1][k] =>
                    /\ DPerp8000(k) > 4400
                    /\ At(k, <<"cmodel", "mag", "i">>) > 17500
                    /\ At(k, <<"cmodel", "mag", "i">>) < 19900

C24_Witness ==
    /\ pc = "sel_done" /\ NRows = 2
    /\ data.rows[1] = SelRow(CmassObject)
    /\ data.rows[2] = SelRow([CmassObject EXCEPT !.mi = 19250, !.psfi = 20000])
    /\ frame.CMASS[1] = <<TRUE, FALSE>>

(***************************************************************************)
(* C25: when several fields of a batch are out of range, sdss_objid        *)
(* reports exactly one: the first in the order rerun, run, camcol, field,  *)
(* id that has an out-of-range element in any row.  A bad rerun in the     *)
(* last row is reported in preference to a bad id in the first row.        *)
(***************************************************************************)
CheckOrder == <<"rerun", "run", "camcol", "field", "id">>

SomeRowOutOfRange(f) == \E k \in 1..N : ~InRange(f, data[k])

C25_FirstOffendingField ==
    pc = "raised" =>
        \E j \in 1..5 :
            /\ err = RangeMessage(CheckOrder[j])
            /\ SomeRowOutOfRange(CheckOrder[j])
            /\ \A i \in 1..(j - 1) : ~SomeRowOutOfRange(CheckOrder[i])

C25_Witness ==
    /\ pc = "raised" /\ N = 2
    /\ ~IdInRange(data[1]) /\ RerunInRange(data[1])
    /\ ~RerunInRange(data[2]) /\ IdInRange(data[2])
    /\ err = "rerun values are out-of-bounds!"

(***************************************************************************)
(* C26: for every row of a successful call the shifted fields lie in       *)
(* pairwise disjoint bit ranges (rerun in bits 48-58, run in 32-47, camcol *)
(* in 29-31, field in 16-27, id in 0-15, the sky version in bit 60), so    *)
(* the bitwise or equals their arithmetic sum, and the identifier is at    *)
(* least 2^60 and below 2^61: bit 60 is set and bits 61-63 are clear.      *)
(***************************************************************************)
\* the bits of x moved up by n places, as a number of unbounded width
MovedUp(x, n) == {b + n : b \in x}

ShiftedFields(k) ==
    <<MovedUp(skyversion[k], 59), MovedUp(rerun[k], 48), MovedUp(run[k], 32),
      MovedUp(camcol[k], 29), MovedUp(firstfield[k], 28),
      MovedUp(field[k], 16), objnum[k]>>

BitRanges == <<{60}, 48..58, 32..47, 29..31, {}, 16..27, 0..15>>

RECURSIVE SumOfFields(_, _)
SumOfFields(fs, j) ==
    IF j > Len(fs) THEN BigNat(0)
    ELSE BigAdd(Limbs(fs[j]), SumOfFields(fs, j + 1))

C26_DisjointBitRanges ==
    pc = "returned" =>
        \A k \in 1..N :
            /\ \A j \in 1..7 : ShiftedFields(k)[j] \subseteq BitRanges[j]
            /\ \A i, j \in 1..7 :
                   i # j => ShiftedFields(k)[i] \cap ShiftedFields(k)[j] = {}
            /\ Limbs(Ids[k]) = SumOfFields(ShiftedFields(k), 1)
            /\ 60 \in Ids[k]
            /\ Ids[k] \cap (61..63) = {}

C26_Witness ==
    /\ pc = "returned" /\ N = 2
    /\ data[1] = MinRow /\ data[2] = MaxRow
    /\ MovedUp(rerun[2], 48) = 48..58
    /\ MovedUp(camcol[2], 29) = {30, 31}
    /\ Ids[1] = {29, 60}

(***************************************************************************)
(* C27: order preservation.  For any two rows of a successful call, the    *)
(* identifier of the first is numerically smaller than that of the second  *)
(* if and only if (rerun, run, camcol, field, id) of the first precedes    *)
(* that of the second in lexicographic order.                              *)
(***************************************************************************)
\* a < b for numbers written as limbs, least significant first
BigLess(a, b) ==
    \E j \in 1..5 : a[j] < b[j] /\ \A i \in (j + 1)..5 : a[i] = b[i]

LexLess(t, u) ==
    \E j \in 1..5 : t[j] < u[j] /\ \A i \in 1..(j - 1) : t[i] = u[i]

C27_OrderPreserved ==
    pc = "returned" =>
        \A j, k \in 1..N :
            BigLess(Limbs(Ids[j]), Limbs(Ids[k]))
                <=> LexLess(Tuple(data[j]), Tuple(data[k]))

C27_Witness ==
    /\ pc = "returned" /\ N = 2
    /\ data[1] = [KnownRow EXCEPT !.run = 0]
    /\ data[2] = [KnownRow EXCEPT !.field = 0]
    /\ BigLess(Limbs(Ids[1]), Limbs(Ids[2]))
    /\ ~BigLess(Limbs(Ids[2]), Limbs(Ids[1]))

(***************************************************************************)
(* C29: an empty batch is valid input.  sdss_objid on zero rows raises no  *)
(* error and returns an empty sequence of identifiers.                     *)
(***************************************************************************)
C29_EmptyBatch ==
    (Terminated /\ data = <<>>) =>
        /\ pc = "returned"
        /\ err = ""
        /\ ret = << <<>> >>

C29_Witness ==
    /\ pc = "returned"
    /\ data = <<>>
    /\ rerun = <<>> /\ objnum = <<>>
    /\ Len(ret) = 1 /\ Len(ret[1]) = 0

(***************************************************************************)
(* asinh_image(image, band), lines 990-1008.  The image is modelled by the *)
(* sequence of its pixels; frame holds the locals C, b and mag.            *)
(***************************************************************************)
\* line 1005: C = -2.5/np.log(10.0)
ImageC == Div(Dec(0 - 2500, -3), Log(Dec(1000, -2)))

\* mutant: the constants of g and r exchanged
ImageSoftening_swapped ==
    [u |-> Dec(1400, -13), g |-> Dec(1200, -13), r |-> Dec(9000, -14),
     i |-> Dec(1800, -13), z |-> Dec(7400, -13)]

\* line 1006: b = dict(u=1.4e-10, g=0.9e-10, r=1.2e-10, i=1.8e-10, z=7.4e-10)
ImageSoftening ==
    [u |-> Dec(1400, -13), g |-> Dec(9000, -14), r |-> Dec(1200, -13),
     i |-> Dec(1800, -13), z |-> Dec(7400, -13)]

\* line 1007, one pixel
ImageMagOf(c, pixel, bb) ==
    Mul(c, Add(Arcsinh(Div(Mul(pixel, Dec(1000, -12)), Mul(Dec(2000, -3), bb))),
               Log(bb)))

\* lines 1005-1006
ImageConstants ==
    /\ pc = "img_constants"
    /\ frame' = [frame EXCEPT !.C = << ImageC >>, !.b = << ImageSoftening >>]
    /\ pc' = "img_mag"
    /\ UNCHANGED <<args, data, locals, objid, ret, err>>

\* line 1007: b[band] raises KeyError for a band that is not a key
ImageMag ==
    /\ pc = "img_mag"
    /\ IF args.band \notin DOMAIN frame.b[1]
       THEN MagRaise("KeyError")
       ELSE /\ frame' = [frame EXCEPT
                           !.mag = << [k \in 1..Len(data) |->
                                         ImageMagOf(frame.C[1], data[k],
                                                    frame.b[1][args.band])] >>]
            /\ pc' = "img_return"
            /\ UNCHANGED <<args, data, locals, objid, ret, err>>

\* line 1008: return mag
ImageReturn ==
    /\ pc = "img_return"
    /\ ret' = frame.mag
    /\ pc' = "returned"
    /\ UNCHANGED <<args, frame, data, locals, objid, err>>

(***************************************************************************)
(* A call of asinh_mag with the default bands and deredden off, followed   *)
(* by a call of asinh_image on the fluxes of one band of the same array.   *)
(* The magnitudes of that band returned by asinh_mag are kept in args      *)
(* (field mags) while asinh_image runs.  A band that is in no column       *)
(* ("y") is given the fluxes of band r.                                    *)
(***************************************************************************)
ImageBands == {"u", "g", "r", "i", "z", "y"}

CallImage ==
    /\ pc = "returned"
    /\ args.fn = "asinh_mag"
    /\ args.bands = Bands5
    /\ ~args.deredden
    /\ \E band \in ImageBands :
          LET fluxband == IF band \in Range(Bands5) THEN band ELSE "r"
          IN  /\ data' = [k \in 1..NRows |->
                            data.rows[k][<<args.magtype, "flux", fluxband>>]]
              /\ args' = [fn |-> "asinh_image", band |-> band,
                          mags |-> [k \in 1..NRows |->
                                      ret[1].rows[k][<<args.magtype, "mag", fluxband>>]]]
    /\ pc' = "img_constants"
    /\ frame' = [C |-> <<>>, b |-> <<>>, mag |-> <<>>]
    /\ ret' = <<>>
    /\ err' = ""
    /\ UNCHANGED <<locals, objid>>

NextImage ==
    \/ NextMag
    \/ CallImage
    \/ ImageConstants
    \/ ImageMag
    \/ ImageReturn

SpecImage == InitMag /\ [][NextImage]_vars

(***************************************************************************)
(* C28: asinh_image and asinh_mag are the same conversion.  For every band *)
(* of u, g, r, i, z and every flux, asinh_image(flux, band) equals the     *)
(* magnitude of that band that asinh_mag, with the default bands and       *)
(* deredden off, returns for the same flux.                                *)
(***************************************************************************)
C28_SameConversion ==
    (Terminated /\ args.fn = "asinh_image"
                /\ args.band \in {"u", "g", "r", "i", "z"}) =>
        /\ pc = "returned"
        /\ ret[1] = args.mags

C28_Witness ==
    /\ pc = "returned"
    /\ args.fn = "asinh_image" /\ args.band = "g"
    /\ Len(data) = 2 /\ data[1] # data[2]
    /\ ret[1] = args.mags
    /\ ret[1][1] # ret[1][2]

(***************************************************************************)
(* The cell that reads the spectrum from the spPlate file, lines 191-202.  *)
(*   data   what the file service holds under the name spfile: nothing,    *)
(*          a file that is not FITS, or a FITS file (a sequence of HDUs,   *)
(*          each with a header and a two-dimensional data array)           *)
(*   args   the globals plate, mjd and fiber set by the earlier cells      *)
(*   frame  the names bound by the cell (<<>> while unbound), the          *)
(*          exception e caught by the except clause, and whether the file  *)
(*          is open                                                        *)
(*   ret    what the cell has printed                                      *)
(* A pixel is written <<hdu, row, column>>: the place it was stored at.    *)
(***************************************************************************)
MaxFibers == 2

NPixVals == {1, 2}

HduCounts == {1, 2, 7}

FiberVals == 0..(MaxFibers + 1)

HeaderKeys == {"COEFF0", "COEFF1", "NAXIS1"}

\* lines 108 and 161
Plate == "3615"

Mjd == "56544"

Header(npix, keys) ==
    [k \in keys |-> CASE k = "COEFF0" -> Dec(3552, -3)
                      [] k = "COEFF1" -> Dec(1000, -7)
                      [] k = "NAXIS1" -> npix]

Hdu(h, nrows, npix, keys) ==
    [header |-> Header(npix, keys),
     data |-> [r \in 1..nrows |-> [c \in 1..npix |-> <<h, r, c>>]]]

\* a file of n HDUs; HDUs 0, 1 and 6 have n0, n1 and n6 rows, the others one
FitsFile(n, n0, n1, n6, npix, keys) ==
    [kind |-> "fits",
     hdus |-> [h \in 1..n |->
                 Hdu(h - 1,
                     CASE h = 1 -> n0 [] h = 2 -> n1 [] h = 7 -> n6 [] OTHER -> 1,
                     npix, keys)]]

StoreContents ==
    {[kind |-> "missing"], [kind |-> "notfits"]}
    \cup {FitsFile(n, n0, n1, n6, npix, keys) :
            n \in HduCounts, n0 \in 0..MaxFibers, n1 \in 0..MaxFibers,
            n6 \in 0..MaxFibers, npix \in NPixVals,
            keys \in {HeaderKeys, HeaderKeys \ {"COEFF1"}}}

\* leave the with block (if entered) for the except clause, e the exception
ToExcept(e) ==
    /\ frame' = [frame EXCEPT !.e = << e >>, !.open = FALSE]
    /\ pc' = "cell_except"
    /\ UNCHANGED <<args, data, locals, objid, ret, err>>

\* a[i] of numpy for an array of n rows: 1-based position, 0 if out of range
PyIndex(i, n) ==
    IF i >= 0 /\ i < n THEN i + 1
    ELSE IF i < 0 /\ i >= 0 - n THEN n + i + 1
    ELSE 0

\* line 192, sc.get(spfile, mode='fileobj'): the file service is not part
\* of the notebook; for a missing file it either raises or hands back
\* something that is not a FITS file
CellGet ==
    /\ pc = "cell_get"
    /\ \/ /\ data.kind = "missing"
          /\ ToExcept("sc.get failed")
       \/ /\ frame' = [frame EXCEPT
                         !.fileobj = << IF data.kind = "fits" THEN data
                                        ELSE [kind |-> "notfits"] >>]
          /\ pc' = "cell_open"
          /\ UNCHANGED <<args, data, locals, objid, ret, err>>

\* line 192, with fits.open(...) as hdulist
CellOpen ==
    /\ pc = "cell_open"
    /\ IF frame.fileobj[1].kind # "fits"
       THEN ToExcept("OSError")
       ELSE /\ frame' = [frame EXCEPT !.hdulist = << frame.fileobj[1].hdus >>,
                                      !.open = TRUE]
            /\ pc' = "cell_hdr"
            /\ UNCHANGED <<args, data, locals, objid, ret, err>>

\* line 193: hdr = hdulist[0].header
CellHdr ==
    /\ pc = "cell_hdr"
    /\ frame' = [frame EXCEPT !.hdr = << frame.hdulist[1][1].header >>]
    /\ pc' = "cell_flux"
    /\ UNCHANGED <<args, data, locals, objid, ret, err>>

\* hdulist[h].data[fiber-1, :] bound to the name given, then the next
\* statement; IndexError if there is no such HDU or no such row
Extract(name, h, next) ==
    IF h + 1 > Len(frame.hdulist[1])
    THEN ToExcept("IndexError")
    ELSE LET rows == frame.hdulist[1][h + 1].data
             j == PyIndex(args.fiber - 1, Len(rows))
         IN  IF j = 0
             THEN ToExcept("IndexError")
             ELSE /\ frame' = [frame EXCEPT
                                 ![name] = << rows[j] >>,
                                 !.open = (next # "cell_loglam")]
                  /\ pc' = next
                  /\ UNCHANGED <<args, data, locals, objid, ret, err>>

\* line 194: flux = hdulist[0].data[fiber-1, :]
CellFlux == pc = "cell_flux" /\ Extract("flux", 0, "cell_ivar")

\* line 195: ivar = hdulist[1].data[fiber-1, :]
CellIvar == pc = "cell_ivar" /\ Extract("ivar", 1, "cell_sky")

\* mutant: the sky taken from the first row
CellSky_firstrow ==
    /\ pc = "cell_sky"
    /\ IF 7 > Len(frame.hdulist[1]) \/ Len(frame.hdulist[1][7].data) = 0
       THEN ToExcept("IndexError")
       ELSE /\ frame' = [frame EXCEPT !.sky = << frame.hdulist[1][7].data[1] >>,
                                      !.open = FALSE]
            /\ pc' = "cell_loglam"
            /\ UNCHANGED <<args, data, locals, objid, ret, err>>

\* line 196: sky = hdulist[6].data[fiber-1, :], and the end of the with block
CellSky == pc = "cell_sky" /\ Extract("sky", 6, "cell_loglam")

\* the text "Could not find spPlate file for plate={0:s}, mjd={1:s}!"
\* formatted with plate and mjd
NotFoundMessage(plate, mjd) ==
    <<"Could not find spPlate file for plate=", plate, ", mjd=", mjd, "!">>

\* lines 197-198: except Exception as e: raise ValueError(...)
CellExcept ==
    /\ pc = "cell_except"
    /\ err' = NotFoundMessage(args.plate, args.mjd)
    /\ pc' = "raised"
    /\ UNCHANGED <<args, frame, data, locals, objid, ret>>

\* line 200: loglam = hdr['COEFF0'] + hdr['COEFF1']*np.arange(hdr['NAXIS1'])
CellLoglam ==
    /\ pc = "cell_loglam"
    /\ IF ~({"COEFF0", "COEFF1", "NAXIS1"} \subseteq DOMAIN frame.hdr[1])
       THEN MagRaise("KeyError")
       ELSE /\ frame' =
                 [frame EXCEPT
                    !.loglam = << [j \in 1..frame.hdr[1]["NAXIS1"] |->
                                     Add(frame.hdr[1]["COEFF0"],
                                         Mul(frame.hdr[1]["COEFF1"],
                                             Norm(1, j - 1, 0)))] >>]
            /\ pc' = "cell_wavelength"
            /\ UNCHANGED <<args, data, locals, objid, ret, err>>

\* line 201: wavelength = 10.0**loglam, elementwise; the power is left
\* unevaluated
CellWavelength ==
    /\ pc = "cell_wavelength"
    /\ frame' = [frame EXCEPT
                   !.wavelength = << [j \in 1..Len(frame.loglam[1]) |->
                                        [base |-> Dec(1000, -2),
                                         exponent |-> frame.loglam[1][j]]] >>]
    /\ pc' = "cell_print"
    /\ UNCHANGED <<args, data, locals, objid, ret, err>>

\* line 202: print("{} {} {}".format(len(flux), len(ivar), len(wavelength)))
CellPrint ==
    /\ pc = "cell_print"
    /\ ret' = << <<Len(frame.flux[1]), Len(frame.ivar[1]),
                   Len(frame.wavelength[1])>> >>
    /\ pc' = "cell_done"
    /\ UNCHANGED <<args, frame, data, locals, objid, err>>

InitCell ==
    /\ data \in StoreContents
    /\ args \in [fn : {"spPlate cell"}, plate : {Plate}, mjd : {Mjd},
                 fiber : FiberVals]
    /\ pc = "cell_get"
    /\ frame = [fileobj |-> <<>>, hdulist |-> <<>>, open |-> FALSE,
                hdr |-> <<>>, flux |-> <<>>, ivar |-> <<>>, sky |-> <<>>,
                e |-> <<>>, loglam |-> <<>>, wavelength |-> <<>>]
    /\ skyversion = <<>> /\ rerun = <<>> /\ run = <<>> /\ camcol = <<>>
    /\ firstfield = <<>> /\ field = <<>> /\ objnum = <<>>
    /\ objid = <<>> /\ ret = <<>>
    /\ err = ""

NextCell ==
    \/ CellGet
    \/ CellOpen
    \/ CellHdr
    \/ CellFlux
    \/ CellIvar
    \/ CellSky
    \/ CellExcept
    \/ CellLoglam
    \/ CellWavelength
    \/ CellPrint

SpecCell == InitCell /\ [][NextCell]_vars

(***************************************************************************)
(* Vocabulary of the property of the cell.  Row fiber-1 is a numpy index:  *)
(* a negative index counts from the end.                                   *)
(***************************************************************************)
\* HDU h of the stored file has a row of index fiber-1
HasRow(h) ==
    /\ data.kind = "fits"
    /\ h + 1 <= Len(data.hdus)
    /\ LET n == Len(data.hdus[h + 1].data)
       IN  args.fiber - 1 < n /\ args.fiber - 1 >= 0 - n

RowOfFiber(h) ==
    LET rows == data.hdus[h + 1].data
    IN  rows[IF args.fiber - 1 >= 0 THEN args.fiber
             ELSE Len(rows) + args.fiber]

CanExtract == HasRow(0) /\ HasRow(1) /\ HasRow(6)

PastTry ==
    \/ pc \in {"cell_loglam", "cell_wavelength", "cell_print", "cell_done"}
    \/ pc = "raised" /\ frame.e = <<>>

(***************************************************************************)
(* C30: any exception raised while fetching or opening the spPlate file,   *)
(* or while extracting row fiber-1 of the flux, the inverse variance (HDU  *)
(* 1) and the sky (HDU 6), is replaced by a ValueError saying that the     *)
(* spPlate file for that plate and mjd could not be found; after it the    *)
(* wavelength array is not computed and nothing is printed.  When the try  *)
(* block succeeds, flux, ivar and sky are row fiber-1 of HDUs 0, 1 and 6.  *)
(***************************************************************************)
C30_ReadFailureReplaced ==
    /\ (pc = "raised" /\ frame.e # <<>>) =>
          /\ err = <<"Could not find spPlate file for plate=", "3615",
                     ", mjd=", "56544", "!">>
          /\ frame.loglam = <<>> /\ frame.wavelength = <<>>
          /\ ret = <<>>
    /\ (pc \in {"raised", "cell_done"} /\ ~CanExtract) =>
          (pc = "raised" /\ frame.e # <<>>)
    /\ PastTry =>
          /\ CanExtract
          /\ frame.flux = << RowOfFiber(0) >>
          /\ frame.ivar = << RowOfFiber(1) >>
          /\ frame.sky = << RowOfFiber(6) >>

C30_Witness ==
    /\ pc = "raised"
    /\ args.fiber = 2
    /\ frame.e = << "IndexError" >>
    /\ frame.flux = << <<<<0, 2, 1>>, <<0, 2, 2>>>> >>
    /\ frame.ivar # <<>>
    /\ frame.sky = <<>>
    /\ err[2] = "3615" /\ err[4] = "56544"
    /\ ret = <<>>

====
